---------------------------- MODULE Spec2Model ----------------------------
(***************************************************************************)
(* A model of the shakmaty move generator, position validation and SAN     *)
(* layer.  Bitboards are sets of squares 0..63, Option<T> is T plus a      *)
(* distinguished "none" value, a MoveList is a sequence of move records.   *)
(***************************************************************************)
EXTENDS Integers, Sequences, FiniteSets, TLC

(***************************************************************************)
(* Squares, colors, roles                                                  *)
(***************************************************************************)
Squares == 0..63
NoSquare == -1
NoCoord == -1
NoRole == "None"
White == "White"
Black == "Black"
Colors == {White, Black}
Roles == {"Pawn", "Knight", "Bishop", "Rook", "Queen", "King"}

file(sq) == sq % 8
rank(sq) == sq \div 8
from_coords(f, r) == 8 * r + f

Abs(n) == IF n < 0 THEN -n ELSE n
distance(a, b) ==
    LET df == Abs(file(a) - file(b))
        dr == Abs(rank(a) - rank(b))
    IN  IF df > dr THEN df ELSE dr

Not(color) == IF color = White THEN Black ELSE White
fold(color, white, black) == IF color = White THEN white ELSE black

RankBB(r) == {s \in Squares : rank(s) = r}
FileBB(f) == {s \in Squares : file(s) = f}
relative_rank(color, r) == RankBB(fold(color, r, 7 - r))
BACKRANKS == RankBB(0) \cup RankBB(7)
\* A hill of d4 alone.
CENTER_d4 == {27}

CENTER == {27, 28, 35, 36}
DARK_SQUARES == {s \in Squares : (file(s) + rank(s)) % 2 = 0}
LIGHT_SQUARES == Squares \ DARK_SQUARES

(***************************************************************************)
(* attacks.rs                                                              *)
(***************************************************************************)
ROOK_DELTAS == {8, 1, -8, -1}
BISHOP_DELTAS == {9, 7, -9, -7}
KING_DELTAS == {9, 8, 7, 1, -9, -8, -7, -1}
KNIGHT_DELTAS == {17, 15, 10, 6, -17, -15, -10, -6}
WHITE_PAWN_DELTAS == {7, 9}
BLACK_PAWN_DELTAS == {-7, -9}

RECURSIVE slide(_, _, _)
slide(s, delta, occupied) ==
    LET n == s + delta
    IN  IF n < 0 \/ n >= 64 \/ distance(n, s) > 2 THEN {}
        ELSE IF n \in occupied THEN {n}
        ELSE {n} \cup slide(n, delta, occupied)

sliding_attacks(sq, occupied, deltas) ==
    UNION {slide(sq, delta, occupied) : delta \in deltas}

step_attacks(sq, deltas) == sliding_attacks(sq, Squares, deltas)

\* The tables Precomp::new fills.
knight_attacks_tab == [s \in Squares |-> step_attacks(s, KNIGHT_DELTAS)]
king_attacks_tab == [s \in Squares |-> step_attacks(s, KING_DELTAS)]
white_pawn_attacks == [s \in Squares |-> step_attacks(s, WHITE_PAWN_DELTAS)]
black_pawn_attacks == [s \in Squares |-> step_attacks(s, BLACK_PAWN_DELTAS)]

\* Edges that take every border square out of a mask.
edges_all_borders(sq) == RankBB(0) \cup RankBB(7) \cup FileBB(0) \cup FileBB(7)

edges(sq) ==
    ((RankBB(0) \cup RankBB(7)) \ RankBB(rank(sq))) \cup
    ((FileBB(0) \cup FileBB(7)) \ FileBB(file(sq)))

rook_ranges == [s \in Squares |-> sliding_attacks(s, {}, ROOK_DELTAS)]
rook_masks == [s \in Squares |-> rook_ranges[s] \ edges(s)]
bishop_ranges == [s \in Squares |-> sliding_attacks(s, {}, BISHOP_DELTAS)]
bishop_masks == [s \in Squares |-> bishop_ranges[s] \ edges(s)]

\* The attack table holds, for every subset of the mask, the sliding attack
\* under that subset packed onto the range; a lookup extracts the occupancy
\* under the mask and deposits the entry onto the range.
magic_lookup(sq, occupied, mask, range, deltas) ==
    sliding_attacks(sq, occupied \cap mask, deltas) \cap range

pawn_attacks(color, sq) ==
    IF color = White THEN white_pawn_attacks[sq] ELSE black_pawn_attacks[sq]
knight_attacks(sq) == knight_attacks_tab[sq]
king_attacks(sq) == king_attacks_tab[sq]
rook_attacks(sq, occupied) ==
    magic_lookup(sq, occupied, rook_masks[sq], rook_ranges[sq], ROOK_DELTAS)
bishop_attacks(sq, occupied) ==
    magic_lookup(sq, occupied, bishop_masks[sq], bishop_ranges[sq], BISHOP_DELTAS)
queen_attacks(sq, occupied) ==
    rook_attacks(sq, occupied) \cup bishop_attacks(sq, occupied)

bb_rays ==
    [a \in Squares |-> [b \in Squares |->
        IF b \in bishop_attacks(a, {})
        THEN (bishop_attacks(a, {}) \cap bishop_attacks(b, {})) \cup {a, b}
        ELSE IF b \in rook_attacks(a, {})
        THEN (rook_attacks(a, {}) \cap rook_attacks(b, {})) \cup {a, b}
        ELSE {}]]
bb_between ==
    [a \in Squares |-> [b \in Squares |->
        IF b \in bishop_attacks(a, {})
        THEN bishop_attacks(a, {b}) \cap bishop_attacks(b, {a})
        ELSE IF b \in rook_attacks(a, {})
        THEN rook_attacks(a, {b}) \cap rook_attacks(b, {a})
        ELSE {}]]

ray(a, b) == bb_rays[a][b]
between(a, b) == bb_between[a][b]
\* aligned that knows ranks and files only.
aligned_orthogonal(a, b, c) ==
    \/ file(a) = file(b) /\ file(b) = file(c)
    \/ rank(a) = rank(b) /\ rank(b) = rank(c)

aligned(a, b, c) == c \in ray(a, b)


(***************************************************************************)
(* Bitboard iteration and MoveList helpers                                 *)
(***************************************************************************)
\* Iteration over a bitboard yields its squares lowest first.
SquareSeq == [i \in 1..64 |-> i - 1]
BitSeq(bb) == SelectSeq(SquareSeq, LAMBDA s : s \in bb)

first(bb) == IF bb = {} THEN NoSquare ELSE CHOOSE s \in bb : \A t \in bb : s <= t
last(bb) == IF bb = {} THEN NoSquare ELSE CHOOSE s \in bb : \A t \in bb : s >= t
single_square(bb) == IF Cardinality(bb) = 1 THEN first(bb) ELSE NoSquare
more_than_one(bb) == Cardinality(bb) > 1

RECURSIVE Flatten(_, _, _)
Flatten(lists, lo, hi) ==
    IF lo > hi THEN <<>>
    ELSE IF lo = hi THEN lists[lo]
    ELSE LET mid == (lo + hi) \div 2
         IN  Flatten(lists, lo, mid) \o Flatten(lists, mid + 1, hi)

\* for sq in bb { moves.extend(Gen(sq)) }
ForEach(bb, Gen(_)) ==
    LET q == BitSeq(bb)
    IN  Flatten([i \in 1..Len(q) |-> Gen(q[i])], 1, Len(q))

retain(moves, Keep(_)) == SelectSeq(moves, Keep)
contains(moves, m) == \E i \in 1..Len(moves) : moves[i] = m
Range(moves) == {moves[i] : i \in 1..Len(moves)}

(***************************************************************************)
(* Board: one bitboard per color and per role, plus the promoted bitboard  *)
(***************************************************************************)
occupied(board) == board.by_color[White] \cup board.by_color[Black]
rooks_and_queens(board) == board.by_role["Rook"] \cup board.by_role["Queen"]
bishops_and_queens(board) == board.by_role["Bishop"] \cup board.by_role["Queen"]
sliders(board) ==
    board.by_role["Bishop"] \cup board.by_role["Rook"] \cup board.by_role["Queen"]

role_at(board, sq) ==
    IF \E r \in Roles : sq \in board.by_role[r]
    THEN CHOOSE r \in Roles : sq \in board.by_role[r]
    ELSE NoRole

king_of(board, color) == first(board.by_role["King"] \cap board.by_color[color])

discard_piece_at(board, sq) ==
    [by_color |-> [c \in Colors |-> board.by_color[c] \ {sq}],
     by_role |-> [r \in Roles |-> board.by_role[r] \ {sq}],
     promoted |-> board.promoted \ {sq}]

set_piece_at(board, sq, color, role, promoted) ==
    LET b == discard_piece_at(board, sq)
    IN  [by_color |-> [b.by_color EXCEPT ![color] = @ \cup {sq}],
         by_role |-> [b.by_role EXCEPT ![role] = @ \cup {sq}],
         promoted |-> IF promoted THEN b.promoted \cup {sq} ELSE b.promoted]

attacks_to(board, sq, attacker, occ) ==
    board.by_color[attacker] \cap
        ((rook_attacks(sq, occ) \cap rooks_and_queens(board)) \cup
         (bishop_attacks(sq, occ) \cap bishops_and_queens(board)) \cup
         (knight_attacks(sq) \cap board.by_role["Knight"]) \cup
         (king_attacks(sq) \cap board.by_role["King"]) \cup
         (pawn_attacks(Not(attacker), sq) \cap board.by_role["Pawn"]))

\* A board from a set of <<color, role, square>> placements.
BoardOf(placed) ==
    [by_color |-> [c \in Colors |-> {p[3] : p \in {q \in placed : q[1] = c}}],
     by_role |-> [r \in Roles |-> {p[3] : p \in {q \in placed : q[2] = r}}],
     promoted |-> {}]

(***************************************************************************)
(* Castles: the unmoved rook and the path that must be empty, per wing     *)
(***************************************************************************)
Sides == {"KingSide", "QueenSide"}
king_to_file(side) == IF side = "KingSide" THEN 6 ELSE 2
rook_to_file(side) == IF side = "KingSide" THEN 5 ELSE 3
king_to(side, color) == from_coords(king_to_file(side), fold(color, 0, 7))
rook_to(side, color) == from_coords(rook_to_file(side), fold(color, 0, 7))

castling_rights(castles) ==
    {castles.rook[c][s] : c \in Colors, s \in Sides} \ {NoSquare}

\* A Castles that never forgets a rook.
discard_rook_never(castles, sq) == castles

discard_rook(castles, sq) ==
    [castles EXCEPT !.rook = [c \in Colors |-> [s \in Sides |->
        IF castles.rook[c][s] = sq THEN NoSquare ELSE castles.rook[c][s]]]]

discard_side(castles, color) ==
    [castles EXCEPT !.rook[color] = [s \in Sides |-> NoSquare]]

\* The rights of a setup are kept for a rook on the relative first rank on
\* the proper side of a king that stands on that rank off the a and h files.
Castles_side(board, rights, color, side) ==
    LET king == king_of(board, color)
        cand == rights \cap board.by_role["Rook"] \cap board.by_color[color]
                \cap relative_rank(color, 0)
        rook == IF side = "QueenSide" THEN first(cand) ELSE last(cand)
    IN  IF king = NoSquare \/ file(king) = 0 \/ file(king) = 7
           \/ rank(king) # fold(color, 0, 7) \/ rook = NoSquare
        THEN NoSquare
        ELSE IF side = "QueenSide" /\ file(rook) < file(king) THEN rook
        ELSE IF side = "KingSide" /\ file(rook) > file(king) THEN rook
        ELSE NoSquare

Castles_path(board, color, side, rook) ==
    IF rook = NoSquare THEN {}
    ELSE LET king == king_of(board, color)
             kto == king_to(side, color)
             rto == rook_to(side, color)
         IN  (between(rook, rto) \cup between(king, kto) \cup {rto, kto}) \ {king, rook}

Castles_from_setup(board, rights, mode) ==
    LET rk == [c \in Colors |-> [s \in Sides |-> Castles_side(board, rights, c, s)]]
        castles == [rook |-> rk,
                    path |-> [c \in Colors |-> [s \in Sides |->
                                 Castles_path(board, c, s, rk[c][s])]],
                    mode |-> mode]
    IN  [castles |-> castles, ok |-> castling_rights(castles) = rights]

Castles_empty(mode) ==
    [rook |-> [c \in Colors |-> [s \in Sides |-> NoSquare]],
     path |-> [c \in Colors |-> [s \in Sides |-> {}]],
     mode |-> mode]

(***************************************************************************)
(* Material (the pockets) and RemainingChecks                              *)
(***************************************************************************)
Material_default == [c \in Colors |-> [r \in Roles |-> 0]]

Material_count(pockets) ==
    LET side(c) == pockets[c]["Pawn"] + pockets[c]["Knight"] + pockets[c]["Bishop"]
                   + pockets[c]["Rook"] + pockets[c]["Queen"] + pockets[c]["King"]
    IN  side(White) + side(Black)

RemainingChecks_default == [c \in Colors |-> 3]

\* RemainingChecks::decrement: one check fewer to give, never below zero.
decrement(remaining_checks, color) ==
    [remaining_checks EXCEPT ![color] = IF @ > 0 THEN @ - 1 ELSE 0]

\* Outcome
Decisive(winner) == [kind |-> "Decisive", winner |-> winner]
Draw == [kind |-> "Draw"]
NoOutcome == [kind |-> "None"]

(***************************************************************************)
(* Moves and positions                                                     *)
(***************************************************************************)
Normal(role, from, capture, to, promotion) ==
    [kind |-> "Normal", role |-> role, from |-> from, capture |-> capture,
     to |-> to, promotion |-> promotion]
Castle(king, rook) == [kind |-> "Castle", king |-> king, rook |-> rook]
EnPassant(from, to) == [kind |-> "EnPassant", from |-> from, to |-> to]
Put(role, to) == [kind |-> "Put", role |-> role, to |-> to]

is_capture(m) ==
    \/ m.kind = "EnPassant"
    \/ m.kind = "Normal" /\ m.capture # NoRole

is_promotion(m) == m.kind = "Normal" /\ m.promotion # NoRole

is_zeroing(m) ==
    \/ m.kind = "Normal" /\ (m.role = "Pawn" \/ m.capture # NoRole)
    \/ m.kind = "EnPassant"
    \/ m.kind = "Castle"
    \/ m.kind = "Put" /\ m.role = "Pawn"

castling_side(m) ==
    IF m.kind # "Castle" THEN "None"
    ELSE IF file(m.king) < file(m.rook) THEN "KingSide" ELSE "QueenSide"

us(pos) == pos.board.by_color[pos.turn]
them(pos) == pos.board.by_color[Not(pos.turn)]
our(pos, role) == pos.board.by_role[role] \cap us(pos)

\* The move counters are u32 and saturate at 2^32 - 1.  Every setup of
\* this model starts them far below that and a run adds at most MaxPly, so
\* the saturated branch is out of reach and the sum is exact.
saturating_add(n, k) == n + k

offset(sq, delta) ==
    IF sq + delta \in Squares THEN sq + delta ELSE NoSquare

do_move(pos, m) ==
    LET color == pos.turn
        halfmoves == IF is_zeroing(m) THEN 0 ELSE saturating_add(pos.halfmoves, 1)
        ep_square ==
            IF m.kind # "Normal" THEN NoSquare
            ELSE IF m.role = "Pawn" /\ m.to - m.from = 16 /\ rank(m.from) = 1
                 THEN offset(m.from, 8)
            ELSE IF m.role = "Pawn" /\ m.from - m.to = 16 /\ rank(m.from) = 6
                 THEN offset(m.from, -8)
            ELSE NoSquare
        castles ==
            CASE m.kind = "Normal" ->
                    LET c1 == IF m.role = "King" THEN discard_side(pos.castles, color)
                              ELSE IF m.role = "Rook" THEN discard_rook(pos.castles, m.from)
                              ELSE pos.castles
                    IN  IF m.capture = "Rook" THEN discard_rook(c1, m.to) ELSE c1
              [] m.kind = "Castle" -> discard_side(pos.castles, color)
              [] OTHER -> pos.castles
        board ==
            CASE m.kind = "Normal" ->
                    LET promoted == m.from \in pos.board.promoted \/ m.promotion # NoRole
                    IN  set_piece_at(discard_piece_at(pos.board, m.from), m.to, color,
                                     IF m.promotion = NoRole THEN m.role ELSE m.promotion,
                                     promoted)
              [] m.kind = "Castle" ->
                    LET side == IF m.rook < m.king THEN "QueenSide" ELSE "KingSide"
                        b0 == discard_piece_at(discard_piece_at(pos.board, m.king), m.rook)
                        b1 == set_piece_at(b0, from_coords(rook_to_file(side), rank(m.rook)),
                                           color, "Rook", FALSE)
                    IN  set_piece_at(b1, from_coords(king_to_file(side), rank(m.king)),
                                     color, "King", FALSE)
              [] m.kind = "EnPassant" ->
                    LET b0 == discard_piece_at(pos.board,
                                               from_coords(file(m.to), rank(m.from)))
                    IN  set_piece_at(discard_piece_at(b0, m.from), m.to, color, "Pawn", FALSE)
              [] m.kind = "Put" ->
                    set_piece_at(pos.board, m.to, color, m.role, FALSE)
    IN  [pos EXCEPT !.board = board,
                    !.turn = Not(color),
                    !.castles = castles,
                    !.ep_square = ep_square,
                    !.halfmoves = halfmoves,
                    !.fullmoves = IF color = Black THEN saturating_add(@, 1) ELSE @]

(***************************************************************************)
(* Move generation                                                         *)
(***************************************************************************)
\* king_attackers without the Atomic override.
king_attackers_plain(v, pos, square, attacker, occ) ==
    attacks_to(pos.board, square, attacker, occ)

\* Position::king_attackers, with the Atomic override: a square next to the
\* attacker's king has no attackers.
king_attackers(v, pos, square, attacker, occ) ==
    IF v = "Atomic" /\ (king_attacks(square) \cap pos.board.by_role["King"]
                          \cap pos.board.by_color[attacker]) # {}
    THEN {}
    ELSE IF v = "Antichess" THEN {}
    ELSE attacks_to(pos.board, square, attacker, occ)

checkers(v, pos) ==
    LET king == first(our(pos, "King"))
    IN  IF king = NoSquare THEN {}
        ELSE king_attackers(v, pos, king, Not(pos.turn), occupied(pos.board))

\* Promotions that also offer the plain advance.
push_promotions_or_not(from, to, capture) ==
    << Normal("Pawn", from, capture, to, "Queen"),
       Normal("Pawn", from, capture, to, "Rook"),
       Normal("Pawn", from, capture, to, "Bishop"),
       Normal("Pawn", from, capture, to, "Knight"),
       Normal("Pawn", from, capture, to, NoRole) >>

push_promotions(from, to, capture) ==
    << Normal("Pawn", from, capture, to, "Queen"),
       Normal("Pawn", from, capture, to, "Rook"),
       Normal("Pawn", from, capture, to, "Bishop"),
       Normal("Pawn", from, capture, to, "Knight") >>

relative_shift(bb, color, n) ==
    {s + fold(color, n, -n) : s \in bb} \cap Squares

gen_pawn_moves(pos, target) ==
    LET turn == pos.turn
        board == pos.board
        seventh == our(pos, "Pawn") \cap relative_rank(turn, 6)
        captures ==
            ForEach(our(pos, "Pawn") \ seventh, LAMBDA from :
                ForEach(pawn_attacks(turn, from) \cap them(pos) \cap target, LAMBDA to :
                    << Normal("Pawn", from, role_at(board, to), to, NoRole) >>))
        promo_captures ==
            ForEach(seventh, LAMBDA from :
                ForEach(pawn_attacks(turn, from) \cap them(pos) \cap target, LAMBDA to :
                    push_promotions(from, to, role_at(board, to))))
        single_moves == relative_shift(our(pos, "Pawn"), turn, 8) \ occupied(board)
        double_moves ==
            (relative_shift(single_moves, turn, 8)
                \cap (relative_rank(turn, 3) \cup relative_rank(turn, 2)))
            \ occupied(board)
        singles ==
            ForEach((single_moves \cap target) \ BACKRANKS, LAMBDA to :
                LET from == offset(to, fold(turn, -8, 8))
                IN  IF from = NoSquare THEN <<>>
                    ELSE << Normal("Pawn", from, NoRole, to, NoRole) >>)
        promos ==
            ForEach(single_moves \cap target \cap BACKRANKS, LAMBDA to :
                LET from == offset(to, fold(turn, -8, 8))
                IN  IF from = NoSquare THEN <<>> ELSE push_promotions(from, to, NoRole))
        doubles ==
            ForEach(double_moves \cap target, LAMBDA to :
                LET from == offset(to, fold(turn, -16, 16))
                IN  IF from = NoSquare THEN <<>>
                    ELSE << Normal("Pawn", from, NoRole, to, NoRole) >>)
    IN  captures \o promo_captures \o singles \o promos \o doubles

role_attacks(role, from, occ) ==
    CASE role = "Knight" -> knight_attacks(from)
      [] role = "King" -> king_attacks(from)
      [] role = "Bishop" -> bishop_attacks(from, occ)
      [] role = "Rook" -> rook_attacks(from, occ)
      [] role = "Queen" -> queen_attacks(from, occ)

\* Stepper::gen_moves and Slider::gen_moves for the tag of `role`.
gen_moves(role, pos, target) ==
    ForEach(our(pos, role), LAMBDA from :
        ForEach(role_attacks(role, from, occupied(pos.board)) \cap target, LAMBDA to :
            << Normal(role, from, role_at(pos.board, to), to, NoRole) >>))

gen_non_king(pos, target) ==
    gen_pawn_moves(pos, target) \o gen_moves("Knight", pos, target)
    \o gen_moves("Bishop", pos, target) \o gen_moves("Rook", pos, target)
    \o gen_moves("Queen", pos, target)

gen_safe_king(pos, king, target) ==
    ForEach(king_attacks(king) \cap target, LAMBDA to :
        IF attacks_to(pos.board, to, Not(pos.turn), occupied(pos.board)) = {}
        THEN << Normal("King", king, role_at(pos.board, to), to, NoRole) >>
        ELSE <<>>)

Xor(bb, sq) == IF sq \in bb THEN bb \ {sq} ELSE bb \cup {sq}

evasions(pos, king, chk) ==
    LET attacked == UNION {Xor(ray(checker, king), checker) :
                              checker \in chk \cap sliders(pos.board)}
        checker == single_square(chk)
    IN  gen_safe_king(pos, king, (Squares \ us(pos)) \ attacked)
        \o (IF checker # NoSquare
            THEN gen_non_king(pos, between(king, checker) \cup {checker})
            ELSE <<>>)

\* Castling that looks at the right and the path only.
gen_castling_moves_path_only(v, pos, king, side) ==
    IF pos.castles.rook[pos.turn][side] = NoSquare
       \/ pos.castles.path[pos.turn][side] \cap occupied(pos.board) # {}
    THEN <<>>
    ELSE << Castle(king, pos.castles.rook[pos.turn][side]) >>

gen_castling_moves(v, pos, king, side) ==
    LET rook == pos.castles.rook[pos.turn][side]
        path == pos.castles.path[pos.turn][side]
        kto == king_to(side, pos.turn)
        king_path == between(king, kto) \cup {king}
        occ == occupied(pos.board)
    IN  IF rook = NoSquare THEN <<>>
        ELSE IF path \cap occ # {} THEN <<>>
        ELSE IF \E sq \in king_path :
                    king_attackers(v, pos, sq, Not(pos.turn), Xor(occ, king)) # {}
             THEN <<>>
        ELSE IF king_attackers(v, pos, kto, Not(pos.turn),
                    Xor(Xor(Xor(occ, king), rook), rook_to(side, pos.turn))) # {}
             THEN <<>>
        ELSE << Castle(king, rook) >>

gen_en_passant(board, turn, ep_square) ==
    IF ep_square = NoSquare THEN <<>>
    ELSE ForEach(board.by_role["Pawn"] \cap board.by_color[turn]
                    \cap pawn_attacks(Not(turn), ep_square),
                 LAMBDA from : << EnPassant(from, ep_square) >>)

slider_blockers(board, enemy, king) ==
    LET snipers == (rook_attacks(king, {}) \cap rooks_and_queens(board)) \cup
                   (bishop_attacks(king, {}) \cap bishops_and_queens(board))
    IN  UNION {between(king, sniper) \cap occupied(board) :
                 sniper \in {sn \in snipers \cap enemy :
                     ~more_than_one(between(king, sn) \cap occupied(board))}}

is_safe(pos, king, m, blockers) ==
    CASE m.kind = "Normal" ->
            m.from \notin blockers \/ aligned(m.from, m.to, king)
      [] m.kind = "EnPassant" ->
            LET occ == (Xor(Xor(occupied(pos.board), m.from),
                            from_coords(file(m.to), rank(m.from)))) \cup {m.to}
            IN  /\ rook_attacks(king, occ) \cap them(pos)
                       \cap rooks_and_queens(pos.board) = {}
                /\ bishop_attacks(king, occ) \cap them(pos)
                       \cap bishops_and_queens(pos.board) = {}
      [] OTHER -> TRUE

\* filter_san_candidates that looks at the destination only.
filter_san_candidates_by_square(role, to, moves) ==
    retain(moves, LAMBDA m : m.kind # "Castle" /\ m.to = to)

filter_san_candidates(role, to, moves) ==
    retain(moves, LAMBDA m :
        CASE m.kind \in {"Normal", "Put"} -> to = m.to /\ role = m.role
          [] m.kind = "EnPassant" -> role = "Pawn" /\ m.to = to
          [] OTHER -> FALSE)

(***************************************************************************)
(* Chess                                                                   *)
(***************************************************************************)
\* The tail of the Chess generators: with a blocker on the board or an en
\* passant capture in the list, only the moves is_safe accepts stay.
retain_safe(pos, king, moves, blockers, has_ep) ==
    IF blockers # {} \/ has_ep
    THEN retain(moves, LAMBDA m : is_safe(pos, king, m, blockers))
    ELSE moves

Chess_legal_moves(pos) ==
    LET king == king_of(pos.board, pos.turn)
        ep == gen_en_passant(pos.board, pos.turn, pos.ep_square)
        chk == checkers("Chess", pos)
        target == Squares \ us(pos)
    IN  retain_safe(pos, king,
            ep \o (IF chk = {}
                   THEN gen_non_king(pos, target) \o gen_safe_king(pos, king, target)
                        \o gen_castling_moves("Chess", pos, king, "KingSide")
                        \o gen_castling_moves("Chess", pos, king, "QueenSide")
                   ELSE evasions(pos, king, chk)),
            slider_blockers(pos.board, them(pos), king),
            ep # <<>>)

Chess_castling_moves(pos, side) ==
    gen_castling_moves("Chess", pos, king_of(pos.board, pos.turn), side)

Chess_en_passant_moves(pos) ==
    LET ep == gen_en_passant(pos.board, pos.turn, pos.ep_square)
        king == king_of(pos.board, pos.turn)
        blockers == slider_blockers(pos.board, them(pos), king)
    IN  IF ep # <<>>
        THEN retain(ep, LAMBDA m : is_safe(pos, king, m, blockers))
        ELSE ep

Chess_san_candidates(pos, role, to) ==
    LET king == king_of(pos.board, pos.turn)
        chk == checkers("Chess", pos)
        occ == occupied(pos.board)
        piece_from ==
            CASE role \in {"Pawn", "King"} -> {}
              [] role = "Knight" -> knight_attacks(to)
              [] role = "Bishop" -> bishop_attacks(to, occ)
              [] role = "Rook" -> rook_attacks(to, occ)
              [] role = "Queen" -> queen_attacks(to, occ)
        quiet ==
            IF to \notin us(pos)
            THEN (CASE role = "Pawn" -> gen_pawn_moves(pos, {to})
                    [] role = "King" -> gen_safe_king(pos, king, {to})
                    [] OTHER -> <<>>)
                 \o ForEach(piece_from \cap our(pos, role), LAMBDA from :
                        << Normal(role, from, role_at(pos.board, to), to, NoRole) >>)
            ELSE <<>>
        ep == IF role = "Pawn" /\ to = pos.ep_square
              THEN gen_en_passant(pos.board, pos.turn, pos.ep_square)
              ELSE <<>>
    IN  retain_safe(pos, king,
            (IF chk = {} THEN quiet
             ELSE filter_san_candidates(role, to, evasions(pos, king, chk))) \o ep,
            slider_blockers(pos.board, them(pos), king),
            ep # <<>>)

Chess_has_insufficient_material(board, color) ==
    LET mine == board.by_color[color]
        theirs == board.by_color[Not(color)]
        same_color == board.by_role["Bishop"] \cap DARK_SQUARES = {}
                      \/ board.by_role["Bishop"] \cap LIGHT_SQUARES = {}
    IN  IF mine \cap (board.by_role["Pawn"] \cup board.by_role["Rook"]
                      \cup board.by_role["Queen"]) # {} THEN FALSE
        ELSE IF mine \cap board.by_role["Knight"] # {}
        THEN Cardinality(mine) <= 2
             /\ theirs \ (board.by_role["King"] \cup board.by_role["Queen"]) = {}
        ELSE IF mine \cap board.by_role["Bishop"] # {}
        THEN same_color /\ board.by_role["Knight"] = {} /\ board.by_role["Pawn"] = {}
        ELSE TRUE

(***************************************************************************)
(* Atomic                                                                  *)
(***************************************************************************)

RECURSIVE explode(_, _, _)
explode(board, castles, radius) ==
    IF radius = {} THEN [board |-> board, castles |-> castles]
    ELSE LET sq == first(radius)
         IN  explode(discard_piece_at(board, sq), discard_rook(castles, sq),
                     radius \ {sq})

\* The explosion taking the pawns next to the capture as well.
Atomic_explosion_with_pawns(after, to) ==
    LET b0 == discard_piece_at(after.board, to)
        explosion_radius == king_attacks(to) \cap occupied(b0)
        c0 == IF explosion_radius \cap b0.by_role["King"]
                   \cap b0.by_color[after.turn] # {}
              THEN discard_side(after.castles, after.turn)
              ELSE after.castles
        ex == explode(b0, c0, explosion_radius)
    IN  [after EXCEPT !.board = ex.board, !.castles = ex.castles]

\* The explosion without the discard_side of an exploded king.
Atomic_explosion_keeps_side(after, to) ==
    LET b0 == discard_piece_at(after.board, to)
        explosion_radius == (king_attacks(to) \cap occupied(b0)) \ b0.by_role["Pawn"]
        ex == explode(b0, after.castles, explosion_radius)
    IN  [after EXCEPT !.board = ex.board, !.castles = ex.castles]

\* The capture arm of Atomic::play_unchecked, on the position do_move left.
Atomic_explosion(after, to) ==
    LET b0 == discard_piece_at(after.board, to)
        explosion_radius == (king_attacks(to) \cap occupied(b0)) \ b0.by_role["Pawn"]
        c0 == IF explosion_radius \cap b0.by_role["King"]
                   \cap b0.by_color[after.turn] # {}
              THEN discard_side(after.castles, after.turn)
              ELSE after.castles
        ex == explode(b0, c0, explosion_radius)
    IN  [after EXCEPT !.board = ex.board, !.castles = ex.castles]

Atomic_play_unchecked(pos, m) ==
    IF is_capture(m) THEN Atomic_explosion(do_move(pos, m), m.to)
    ELSE do_move(pos, m)

\* The filter of Atomic::legal_moves letting a side without a king move on.
Atomic_is_safe_without_king(pos, after) ==
    \/ king_of(after.board, pos.turn) = NoSquare
    \/ after.board.by_role["King"] \cap after.board.by_color[Not(pos.turn)] = {}
    \/ king_attackers("Atomic", after, king_of(after.board, pos.turn), Not(pos.turn),
                      occupied(after.board)) = {}

\* The test Atomic::legal_moves retains a move by, on the position after it.
Atomic_is_safe(pos, after) ==
    LET our_king == king_of(after.board, pos.turn)
    IN  IF our_king # NoSquare
        THEN \/ after.board.by_role["King"]
                    \cap after.board.by_color[Not(pos.turn)] = {}
             \/ king_attackers("Atomic", after, our_king, Not(pos.turn),
                               occupied(after.board)) = {}
        ELSE FALSE

Atomic_legal_moves(pos) ==
    LET king == king_of(pos.board, pos.turn)
        pseudo ==
            gen_en_passant(pos.board, pos.turn, pos.ep_square)
            \o gen_non_king(pos, Squares \ us(pos))
            \o gen_moves("King", pos, Squares \ occupied(pos.board))
            \o (IF king # NoSquare
                THEN gen_castling_moves("Atomic", pos, king, "KingSide")
                     \o gen_castling_moves("Atomic", pos, king, "QueenSide")
                ELSE <<>>)
    IN  retain(pseudo, LAMBDA m : Atomic_is_safe(pos, Atomic_play_unchecked(pos, m)))

Atomic_has_insufficient_material(board, color) ==
    LET kings == board.by_role["King"]
        bishops == board.by_role["Bishop"]
        knights == board.by_role["Knight"]
        white == board.by_color[White]
        black == board.by_color[Black]
    IN  IF board.by_color[Not(color)] \cap kings = {} THEN FALSE
        ELSE IF board.by_color[color] \ kings = {} THEN TRUE
        ELSE IF board.by_color[Not(color)] \ kings # {}
        THEN IF occupied(board) = kings \cup bishops
                /\ bishops \cap white \cap DARK_SQUARES = {}
             THEN bishops \cap black \cap LIGHT_SQUARES = {}
             ELSE IF occupied(board) = kings \cup bishops
                     /\ bishops \cap white \cap LIGHT_SQUARES = {}
             THEN bishops \cap black \cap DARK_SQUARES = {}
             ELSE FALSE
        ELSE IF board.by_role["Queen"] # {} \/ board.by_role["Pawn"] # {} THEN FALSE
        ELSE IF Cardinality(knights \cup bishops \cup board.by_role["Rook"]) = 1 THEN TRUE
        ELSE IF occupied(board) = kings \cup knights THEN Cardinality(knights) <= 2
        ELSE FALSE

(***************************************************************************)
(* Antichess                                                               *)
(***************************************************************************)
\* Every promotion to a queen is followed, at the end of the list, by the
\* same move promoting to a king.
add_king_promotions(moves) ==
    LET queen == retain(moves, LAMBDA m : m.kind = "Normal" /\ m.promotion = "Queen")
    IN  moves \o [i \in 1..Len(queen) |-> [queen[i] EXCEPT !.promotion = "King"]]

Antichess_capture_moves(pos) ==
    add_king_promotions(gen_en_passant(pos.board, pos.turn, pos.ep_square)
                        \o gen_non_king(pos, them(pos)))
    \o gen_moves("King", pos, them(pos))

\* Antichess::legal_moves without the compulsion to capture.
Antichess_legal_moves_free(pos) ==
    Antichess_capture_moves(pos)
    \o add_king_promotions(gen_non_king(pos, Squares \ occupied(pos.board)))
    \o gen_moves("King", pos, Squares \ occupied(pos.board))

Antichess_legal_moves(pos) ==
    IF Antichess_capture_moves(pos) # <<>>
    THEN Antichess_capture_moves(pos)
    ELSE add_king_promotions(gen_non_king(pos, Squares \ occupied(pos.board)))
         \o gen_moves("King", pos, Squares \ occupied(pos.board))

(***************************************************************************)
(* Three-Check                                                             *)
(***************************************************************************)
\* ThreeCheck::play_unchecked charging the check to the side that is in it.
ThreeCheck_play_unchecked_other_side(pos, m) ==
    [do_move(pos, m) EXCEPT !.remaining_checks =
        IF checkers("ThreeCheck", do_move(pos, m)) # {}
        THEN decrement(@, Not(pos.turn)) ELSE @]

ThreeCheck_play_unchecked(pos, m) ==
    [do_move(pos, m) EXCEPT !.remaining_checks =
        IF checkers("ThreeCheck", do_move(pos, m)) # {}
        THEN decrement(@, pos.turn) ELSE @]

(***************************************************************************)
(* Crazyhouse                                                              *)
(***************************************************************************)
\* legal_put_squares that does not look at the checkers.
legal_put_squares_any_empty(pos) == Squares \ occupied(pos.board)

legal_put_squares(pos) ==
    LET chk == checkers("Crazyhouse", pos)
    IN  IF chk = {} THEN Squares \ occupied(pos.board)
        ELSE IF single_square(chk) # NoSquare
        THEN between(single_square(chk), king_of(pos.board, pos.turn))
        ELSE {}

\* Crazyhouse::play_unchecked that pockets a promoted piece as it stands.
Crazyhouse_play_unchecked_as_promoted(pos, m) ==
    [do_move(pos, m) EXCEPT !.pockets[pos.turn] =
        CASE m.kind = "Normal" /\ m.capture # NoRole -> [@ EXCEPT ![m.capture] = @ + 1]
          [] m.kind = "EnPassant" -> [@ EXCEPT !["Pawn"] = @ + 1]
          [] m.kind = "Put" -> [@ EXCEPT ![m.role] = @ - 1]
          [] OTHER -> @]

\* A move played without touching the pockets.
Crazyhouse_play_unchecked_no_pocket(pos, m) == do_move(pos, m)

\* The pocket arithmetic is on u8; the pockets of this model stay far from
\* both ends, a drop being legal only with the piece in the pocket.
Crazyhouse_play_unchecked(pos, m) ==
    [do_move(pos, m) EXCEPT !.pockets[pos.turn] =
        CASE m.kind = "Normal" /\ m.capture # NoRole ->
                IF m.to \in pos.board.promoted
                THEN [@ EXCEPT !["Pawn"] = @ + 1]
                ELSE [@ EXCEPT ![m.capture] = @ + 1]
          [] m.kind = "EnPassant" -> [@ EXCEPT !["Pawn"] = @ + 1]
          [] m.kind = "Put" -> [@ EXCEPT ![m.role] = @ - 1]
          [] OTHER -> @]

Crazyhouse_legal_moves(pos) ==
    Chess_legal_moves(pos)
    \o ForEach(legal_put_squares(pos), LAMBDA to :
            SelectSeq(<<Put("Knight", to), Put("Bishop", to), Put("Rook", to),
                        Put("Queen", to)>>,
                      LAMBDA m : pos.pockets[pos.turn][m.role] > 0))
    \o (IF pos.pockets[pos.turn]["Pawn"] > 0
        THEN ForEach(legal_put_squares(pos) \ BACKRANKS, LAMBDA to : <<Put("Pawn", to)>>)
        ELSE <<>>)

Crazyhouse_san_candidates(pos, role, to) ==
    Chess_san_candidates(pos, role, to)
    \o (IF pos.pockets[pos.turn][role] > 0 /\ to \in legal_put_squares(pos)
           /\ (role # "Pawn" \/ to \notin BACKRANKS)
        THEN <<Put(role, to)>> ELSE <<>>)

(***************************************************************************)
(* Racing Kings                                                            *)
(***************************************************************************)
\* is_variant_end that asks whether Black can catch up whoever is to move.
RacingKings_is_variant_end_any_turn(pos) ==
    /\ pos.board.by_role["King"] \cap RankBB(7) # {}
    /\ \/ pos.board.by_role["King"] \cap RankBB(7) \cap pos.board.by_color[Black] # {}
       \/ ~ \E target \in (king_attacks(king_of(pos.board, Black)) \cap RankBB(7))
                             \ pos.board.by_color[Black] :
                   attacks_to(pos.board, target, White, occupied(pos.board)) = {}

\* is_variant_end that gives Black no move to catch up.
RacingKings_is_variant_end_at_once(pos) == pos.board.by_role["King"] \cap RankBB(7) # {}

RacingKings_is_variant_end(pos) ==
    LET in_goal == pos.board.by_role["King"] \cap RankBB(7)
        black_king == king_of(pos.board, Black)
    IN  IF in_goal = {} THEN FALSE
        ELSE IF pos.turn = White \/ in_goal \cap pos.board.by_color[Black] # {} THEN TRUE
        ELSE ~ \E target \in (king_attacks(black_king) \cap RankBB(7))
                              \ pos.board.by_color[Black] :
                    king_attackers("RacingKings", pos, target, White,
                                   occupied(pos.board)) = {}

\* RacingKings::legal_moves without the ban on giving check.
RacingKings_legal_moves_checking(pos) ==
    IF RacingKings_is_variant_end(pos) THEN <<>>
    ELSE retain_safe(pos, king_of(pos.board, pos.turn),
                     gen_non_king(pos, Squares \ us(pos))
                     \o gen_safe_king(pos, king_of(pos.board, pos.turn),
                                      Squares \ us(pos)),
                     slider_blockers(pos.board, them(pos), king_of(pos.board, pos.turn)),
                     FALSE)

RacingKings_legal_moves(pos) ==
    IF RacingKings_is_variant_end(pos) THEN <<>>
    ELSE retain(retain_safe(pos, king_of(pos.board, pos.turn),
                            gen_non_king(pos, Squares \ us(pos))
                            \o gen_safe_king(pos, king_of(pos.board, pos.turn),
                                             Squares \ us(pos)),
                            slider_blockers(pos.board, them(pos),
                                            king_of(pos.board, pos.turn)),
                            FALSE),
                LAMBDA m : checkers("RacingKings", do_move(pos, m)) = {})

(***************************************************************************)
(* Horde                                                                   *)
(***************************************************************************)
Horde_pseudo_moves(pos, king, chk) ==
    gen_en_passant(pos.board, pos.turn, pos.ep_square)
    \o (IF chk = {}
        THEN gen_non_king(pos, Squares \ us(pos))
             \o (IF king # NoSquare
                 THEN gen_safe_king(pos, king, Squares \ us(pos))
                      \o gen_castling_moves("Horde", pos, king, "KingSide")
                      \o gen_castling_moves("Horde", pos, king, "QueenSide")
                 ELSE <<>>)
        ELSE evasions(pos, king, chk))

Horde_legal_moves(pos) ==
    IF king_of(pos.board, pos.turn) = NoSquare
    THEN Horde_pseudo_moves(pos, NoSquare, {})
    ELSE retain_safe(pos, king_of(pos.board, pos.turn),
                     Horde_pseudo_moves(pos, king_of(pos.board, pos.turn),
                                        checkers("Horde", pos)),
                     slider_blockers(pos.board, them(pos), king_of(pos.board, pos.turn)),
                     gen_en_passant(pos.board, pos.turn, pos.ep_square) # <<>>)

(***************************************************************************)
(* Position trait dispatch                                                 *)
(***************************************************************************)
\* KingOfTheHill, ThreeCheck and Crazyhouse hold a Chess position and hand
\* validation and the en passant square to it.
inner(v) == IF v \in {"KingOfTheHill", "ThreeCheck", "Crazyhouse"} THEN "Chess" ELSE v

is_variant_end(v, pos) ==
    CASE v = "Atomic" ->
            \E color \in Colors :
                pos.board.by_role["King"] \cap pos.board.by_color[color] = {}
      [] v \in {"Antichess", "Horde"} ->
            pos.board.by_color[White] = {} \/ pos.board.by_color[Black] = {}
      [] v = "KingOfTheHill" -> pos.board.by_role["King"] \cap CENTER # {}
      [] v = "ThreeCheck" ->
            pos.remaining_checks[White] = 0 \/ pos.remaining_checks[Black] = 0
      [] v = "RacingKings" -> RacingKings_is_variant_end(pos)
      [] OTHER -> FALSE

legal_moves(v, pos) ==
    CASE v = "Chess" -> Chess_legal_moves(pos)
      [] v = "Atomic" -> Atomic_legal_moves(pos)
      [] v = "Antichess" -> Antichess_legal_moves(pos)
      [] v \in {"KingOfTheHill", "ThreeCheck"} ->
            IF is_variant_end(v, pos) THEN <<>> ELSE Chess_legal_moves(pos)
      [] v = "Crazyhouse" -> Crazyhouse_legal_moves(pos)
      [] v = "RacingKings" -> RacingKings_legal_moves(pos)
      [] v = "Horde" -> Horde_legal_moves(pos)

\* A move played without a fresh en passant square.
play_unchecked_keeping_ep(v, pos, m) ==
    [do_move(pos, m) EXCEPT !.ep_square = pos.ep_square]

play_unchecked(v, pos, m) ==
    CASE v = "Atomic" -> Atomic_play_unchecked(pos, m)
      [] v = "ThreeCheck" -> ThreeCheck_play_unchecked(pos, m)
      [] v = "Crazyhouse" -> Crazyhouse_play_unchecked(pos, m)
      [] v = "RacingKings" -> [do_move(pos, m) EXCEPT !.ep_square = NoSquare]
      [] OTHER -> do_move(pos, m)

san_candidates(v, pos, role, to) ==
    CASE v = "Chess" -> Chess_san_candidates(pos, role, to)
      [] v = "Atomic" -> filter_san_candidates(role, to, Atomic_legal_moves(pos))
      [] v = "Antichess" -> filter_san_candidates(role, to, Antichess_legal_moves(pos))
      [] v \in {"KingOfTheHill", "ThreeCheck"} ->
            IF is_variant_end(v, pos) THEN <<>> ELSE Chess_san_candidates(pos, role, to)
      [] v = "Crazyhouse" -> Crazyhouse_san_candidates(pos, role, to)
      [] v = "RacingKings" -> filter_san_candidates(role, to, RacingKings_legal_moves(pos))
      [] v = "Horde" -> filter_san_candidates(role, to, Horde_legal_moves(pos))

castling_moves(v, pos, side) ==
    CASE v \in {"Chess", "Crazyhouse"} -> Chess_castling_moves(pos, side)
      [] v = "Atomic" ->
            retain(Atomic_legal_moves(pos), LAMBDA m : castling_side(m) = side)
      [] v = "Antichess" ->
            retain(Antichess_legal_moves(pos), LAMBDA m : castling_side(m) = side)
      [] v \in {"KingOfTheHill", "ThreeCheck"} ->
            IF is_variant_end(v, pos) THEN <<>> ELSE Chess_castling_moves(pos, side)
      [] v = "RacingKings" ->
            retain(RacingKings_legal_moves(pos), LAMBDA m : castling_side(m) = side)
      [] v = "Horde" ->
            retain(Horde_legal_moves(pos), LAMBDA m : castling_side(m) = side)

en_passant_moves(v, pos) ==
    CASE v \in {"Chess", "Crazyhouse"} -> Chess_en_passant_moves(pos)
      [] v = "Atomic" -> retain(Atomic_legal_moves(pos), LAMBDA m : m.kind = "EnPassant")
      [] v = "Antichess" -> gen_en_passant(pos.board, pos.turn, pos.ep_square)
      [] v \in {"KingOfTheHill", "ThreeCheck"} ->
            IF is_variant_end(v, pos) THEN <<>> ELSE Chess_en_passant_moves(pos)
      [] v = "RacingKings" ->
            retain(RacingKings_legal_moves(pos), LAMBDA m : m.kind = "EnPassant")
      [] v = "Horde" -> retain(Horde_legal_moves(pos), LAMBDA m : m.kind = "EnPassant")

capture_moves(v, pos) ==
    IF v = "Antichess" THEN Antichess_capture_moves(pos)
    ELSE retain(legal_moves(v, pos), LAMBDA m : is_capture(m))

promotion_moves(v, pos) ==
    IF v = "Chess"
    THEN retain_safe(pos, king_of(pos.board, pos.turn),
                     IF checkers("Chess", pos) = {}
                     THEN gen_pawn_moves(pos, BACKRANKS)
                     ELSE retain(evasions(pos, king_of(pos.board, pos.turn),
                                          checkers("Chess", pos)),
                                 LAMBDA m : is_promotion(m)),
                     slider_blockers(pos.board, them(pos), king_of(pos.board, pos.turn)),
                     FALSE)
    ELSE retain(legal_moves(v, pos), LAMBDA m : is_promotion(m))

has_insufficient_material(v, pos, color) ==
    CASE v = "Chess" -> Chess_has_insufficient_material(pos.board, color)
      [] v = "Atomic" -> Atomic_has_insufficient_material(pos.board, color)
      [] v = "Antichess" ->
            /\ occupied(pos.board) = pos.board.by_role["Bishop"]
            /\ \/ /\ pos.board.by_color[color] \cap LIGHT_SQUARES # {}
                  /\ pos.board.by_color[Not(color)] \cap LIGHT_SQUARES = {}
               \/ /\ pos.board.by_color[color] \cap DARK_SQUARES # {}
                  /\ pos.board.by_color[Not(color)] \cap DARK_SQUARES = {}
      [] v = "ThreeCheck" ->
            pos.board.by_color[color] \subseteq pos.board.by_role["King"]
      [] v = "Crazyhouse" ->
            /\ Cardinality(occupied(pos.board)) + Material_count(pos.pockets) <= 3
            /\ pos.board.promoted = {}
            /\ pos.board.by_role["Pawn"] = {}
            /\ pos.board.by_role["Rook"] \cup pos.board.by_role["Queen"] = {}
            /\ \A c \in Colors : \A r \in {"Pawn", "Rook", "Queen"} : pos.pockets[c][r] = 0
      [] OTHER -> FALSE

variant_outcome(v, pos) ==
    CASE v = "Atomic" ->
            IF pos.board.by_role["King"] \cap pos.board.by_color[White] = {}
            THEN Decisive(Black)
            ELSE IF pos.board.by_role["King"] \cap pos.board.by_color[Black] = {}
            THEN Decisive(White)
            ELSE NoOutcome
      [] v = "Antichess" ->
            IF us(pos) = {} \/ (checkers(v, pos) = {} /\ ~is_variant_end(v, pos)
                                /\ Antichess_legal_moves(pos) = <<>>)
            THEN Decisive(pos.turn) ELSE NoOutcome
      [] v = "KingOfTheHill" ->
            IF pos.board.by_role["King"] \cap pos.board.by_color[White] \cap CENTER # {}
            THEN Decisive(White)
            ELSE IF pos.board.by_role["King"] \cap pos.board.by_color[Black] \cap CENTER # {}
            THEN Decisive(Black)
            ELSE NoOutcome
      [] v = "ThreeCheck" ->
            IF pos.remaining_checks[White] = 0 /\ pos.remaining_checks[Black] = 0 THEN Draw
            ELSE IF pos.remaining_checks[White] = 0 THEN Decisive(White)
            ELSE IF pos.remaining_checks[Black] = 0 THEN Decisive(Black)
            ELSE NoOutcome
      [] v = "RacingKings" ->
            IF ~RacingKings_is_variant_end(pos) THEN NoOutcome
            ELSE IF pos.board.by_role["King"] \cap pos.board.by_color[White]
                    \cap RankBB(7) # {}
                    /\ pos.board.by_role["King"] \cap pos.board.by_color[Black]
                       \cap RankBB(7) # {}
            THEN Draw
            ELSE IF pos.board.by_role["King"] \cap pos.board.by_color[White]
                    \cap RankBB(7) # {}
            THEN Decisive(White)
            ELSE Decisive(Black)
      [] v = "Horde" ->
            IF occupied(pos.board) = {} THEN Draw
            ELSE IF pos.board.by_color[White] = {} THEN Decisive(Black)
            ELSE IF pos.board.by_color[Black] = {} THEN Decisive(White)
            ELSE NoOutcome
      [] OTHER -> NoOutcome

is_checkmate(v, pos) == checkers(v, pos) # {} /\ legal_moves(v, pos) = <<>>

is_stalemate(v, pos) ==
    IF checkers(v, pos) # {} \/ is_variant_end(v, pos) THEN FALSE
    ELSE legal_moves(v, pos) = <<>>

is_insufficient_material(v, pos) ==
    has_insufficient_material(v, pos, White) /\ has_insufficient_material(v, pos, Black)

is_game_over(v, pos) == legal_moves(v, pos) = <<>> \/ is_insufficient_material(v, pos)

outcome(v, pos) ==
    IF variant_outcome(v, pos) # NoOutcome THEN variant_outcome(v, pos)
    ELSE IF is_checkmate(v, pos) THEN Decisive(Not(pos.turn))
    ELSE IF is_insufficient_material(v, pos) \/ is_stalemate(v, pos) THEN Draw
    ELSE NoOutcome

has_relevant_ep(v, pos) == en_passant_moves(v, pos) # <<>>

\* Setup::ep_square of a position.
ep_square(v, pos) ==
    IF v # "RacingKings" /\ pos.ep_square # NoSquare /\ has_relevant_ep(inner(v), pos)
    THEN pos.ep_square ELSE NoSquare

\* is_legal with the castling wings taken the wrong way round.
is_legal_wings_swapped(v, pos, m) ==
    contains(IF m.kind = "Castle"
             THEN castling_moves(v, pos, IF file(m.king) < file(m.rook)
                                         THEN "QueenSide" ELSE "KingSide")
             ELSE san_candidates(v, pos, IF m.kind = "EnPassant" THEN "Pawn" ELSE m.role,
                                 m.to),
             m)

is_legal(v, pos, m) ==
    contains(IF m.kind = "Castle"
             THEN castling_moves(v, pos, IF file(m.king) < file(m.rook)
                                         THEN "KingSide" ELSE "QueenSide")
             ELSE san_candidates(v, pos, IF m.kind = "EnPassant" THEN "Pawn" ELSE m.role,
                                 m.to),
             m)

play(v, pos, m) ==
    IF is_legal(v, pos, m)
    THEN [ok |-> TRUE, pos |-> play_unchecked(v, pos, m)]
    ELSE [ok |-> FALSE, pos |-> pos]

(***************************************************************************)
(* Validation                                                              *)
(***************************************************************************)
\* Chess::ep_square runs en_passant_moves, which expects a king of the side
\* to move as soon as gen_en_passant has found a capturing pawn.
expect_king_panics(v, pos) ==
    /\ inner(v) = "Chess"
    /\ gen_en_passant(pos.board, pos.turn, pos.ep_square) # <<>>
    /\ king_of(pos.board, pos.turn) = NoSquare

\* The en passant arm of validate, on the square pos.ep_square() returns.
invalid_ep_square(pos, ep) ==
    LET fifth_rank_sq == offset(ep, fold(pos.turn, -8, 8))
        seventh_rank_sq == offset(ep, fold(pos.turn, 8, -8))
    IN  IF ep = NoSquare THEN FALSE
        ELSE IF ep \notin relative_rank(pos.turn, 5) THEN TRUE
        ELSE \/ fifth_rank_sq \notin (pos.board.by_role["Pawn"] \cap them(pos))
             \/ ep \in occupied(pos.board)
             \/ seventh_rank_sq \in occupied(pos.board)

validate(v, pos) ==
    LET board == pos.board
        our_king == king_of(board, pos.turn)
        their_king == king_of(board, Not(pos.turn))
        chk == checkers(v, pos)
        a == first(chk)
        b == last(chk)
    IN  (IF occupied(board) = {} THEN {"EMPTY_BOARD"} ELSE {})
        \cup (IF board.by_role["Pawn"] \cap BACKRANKS # {}
              THEN {"PAWNS_ON_BACKRANK"} ELSE {})
        \cup (IF invalid_ep_square(pos, ep_square(v, pos))
              THEN {"INVALID_EP_SQUARE"} ELSE {})
        \cup (IF \E color \in Colors : king_of(board, color) = NoSquare
              THEN {"MISSING_KING"} ELSE {})
        \cup (IF \E color \in Colors :
                    more_than_one(board.by_role["King"] \cap board.by_color[color])
              THEN {"TOO_MANY_KINGS"} ELSE {})
        \cup (IF their_king # NoSquare
                 /\ king_attackers(v, pos, their_king, pos.turn, occupied(board)) # {}
              THEN {"OPPOSITE_CHECK"} ELSE {})
        \cup (IF our_king # NoSquare /\ a # NoSquare /\ a # b
                 /\ (Cardinality(chk) > 2 \/ aligned(a, b, our_king))
              THEN {"IMPOSSIBLE_CHECK"} ELSE {})

\* PositionError::strict
strict(pos, errors) ==
    [kind |-> IF errors = {} THEN "Ok" ELSE "Err", pos |-> pos, errors |-> errors]

\* The position built from the setup and the castles Castles::from_setup
\* has returned, with the error of rights that had to be dropped.
\* Racing Kings keeps no en passant square and reports one in the setup;
\* only Crazyhouse keeps pockets and only Three-Check the remaining checks.
position_of(v, setup, c) ==
    [pos |-> [board |-> setup.board,
              turn |-> setup.turn,
              castles |-> c.castles,
              ep_square |-> IF v = "RacingKings" THEN NoSquare ELSE setup.ep_square,
              halfmoves |-> setup.halfmoves,
              fullmoves |-> setup.fullmoves,
              pockets |-> IF v = "Crazyhouse" THEN setup.pockets ELSE Material_default,
              remaining_checks |-> IF v = "ThreeCheck" THEN setup.remaining_checks
                                   ELSE RemainingChecks_default],
     errors |-> (IF c.ok THEN {} ELSE {"BAD_CASTLING_RIGHTS"})
                \cup (IF v = "RacingKings" /\ setup.ep_square # NoSquare
                      THEN {"INVALID_EP_SQUARE"} ELSE {})]

\* The errors a variant takes out before strict(): Atomic forgives a missing
\* king of the side to move while the other king stands, and any check.
\* Antichess forgives everything about kings, Horde the pawns on a back
\* rank and the missing king, which variant_errors looks at again.
forgiven(v, pos) ==
    CASE v = "Atomic" ->
            {"IMPOSSIBLE_CHECK"} \cup
            (IF them(pos) \cap pos.board.by_role["King"] # {}
             THEN {"MISSING_KING"} ELSE {})
      [] v = "Antichess" ->
            {"MISSING_KING", "TOO_MANY_KINGS", "OPPOSITE_CHECK", "IMPOSSIBLE_CHECK"}
      [] v = "Horde" -> {"PAWNS_ON_BACKRANK", "MISSING_KING"}
      [] OTHER -> {}

\* A variant that adds no error of its own.
variant_errors_none(v, pos) == {}

\* The errors a variant adds of its own.
variant_errors(v, pos) ==
    CASE v = "ThreeCheck" ->
            IF pos.remaining_checks[White] = 0 /\ pos.remaining_checks[Black] = 0
            THEN {"VARIANT"} ELSE {}
      [] v = "Crazyhouse" ->
            IF Material_count(pos.pockets) + Cardinality(occupied(pos.board)) > 64
            THEN {"VARIANT"}
            ELSE IF pos.pockets[White]["King"] > 0 \/ pos.pockets[Black]["King"] > 0
            THEN {"TOO_MANY_KINGS"} ELSE {}
      [] v = "RacingKings" ->
            (IF pos.board.by_role["Pawn"] # {} THEN {"VARIANT"} ELSE {})
            \cup (IF checkers(v, pos) # {} THEN {"IMPOSSIBLE_CHECK"} ELSE {})
            \cup (IF pos.turn = Black
                     /\ pos.board.by_color[White] \cap pos.board.by_role["King"]
                        \cap RankBB(7) # {}
                     /\ pos.board.by_color[Black] \cap pos.board.by_role["King"]
                        \cap RankBB(7) # {}
                  THEN {"VARIANT"} ELSE {})
      [] v = "Horde" ->
            (IF pos.board.by_role["Pawn"] \cap pos.board.by_color[White] \cap RankBB(7) # {}
                \/ pos.board.by_role["Pawn"] \cap pos.board.by_color[Black]
                   \cap RankBB(0) # {}
             THEN {"PAWNS_ON_BACKRANK"} ELSE {})
            \cup (IF pos.board.by_role["King"] \ pos.board.promoted = {}
                  THEN {"MISSING_KING"} ELSE {})
            \cup (IF pos.board.by_role["King"] \cap pos.board.by_color[White] # {}
                     /\ pos.board.by_role["King"] \cap pos.board.by_color[Black] # {}
                  THEN {"VARIANT"} ELSE {})
      [] OTHER -> {}

\* validate, the variant's allowances and strict() on a built position.
validated(v, built) ==
    IF expect_king_panics(v, built.pos)
    THEN [kind |-> "Panic", pos |-> built.pos, errors |-> {}]
    ELSE strict(built.pos,
                ((validate(inner(v), built.pos) \cup built.errors)
                 \ forgiven(v, built.pos))
                \cup variant_errors(v, built.pos))

\* Antichess and Racing Kings start from Castles::empty and report any
\* right the setup claims.
from_setup(v, setup) ==
    validated(v, position_of(v, setup,
        IF v \in {"Antichess", "RacingKings"}
        THEN [castles |-> Castles_empty("Standard"), ok |-> setup.castling_rights = {}]
        ELSE Castles_from_setup(setup.board, setup.castling_rights, "Standard")))

(***************************************************************************)
(* SAN                                                                     *)
(***************************************************************************)
SanNormal(role, f, r, capture, to, promotion) ==
    [kind |-> "Normal", role |-> role, file |-> f, rank |-> r,
     capture |-> capture, to |-> to, promotion |-> promotion]
SanCastleShort == [kind |-> "CastleShort"]
SanCastleLong == [kind |-> "CastleLong"]
SanPut(role, to) == [kind |-> "Put", role |-> role, to |-> to]
SanNull == [kind |-> "Null"]

san(v, pos, m) ==
    CASE m.kind = "Normal" /\ m.role = "Pawn" ->
            SanNormal("Pawn", IF m.capture # NoRole THEN file(m.from) ELSE NoCoord,
                      NoCoord, m.capture # NoRole, m.to, m.promotion)
      [] m.kind = "Normal" /\ m.role # "Pawn" ->
            LET legals == legal_moves(v, pos)
                others == {c \in Range(legals) :
                              /\ c.kind = "Normal"
                              /\ ~(m.role # c.role \/ m.to # c.to \/ m.from = c.from)}
                by_file == \E c \in others :
                              rank(m.from) = rank(c.from) \/ file(m.from) # file(c.from)
                by_rank == \E c \in others :
                              ~(rank(m.from) = rank(c.from) \/ file(m.from) # file(c.from))
            IN  SanNormal(m.role,
                          IF by_file THEN file(m.from) ELSE NoCoord,
                          IF by_rank THEN rank(m.from) ELSE NoCoord,
                          m.capture # NoRole, m.to, m.promotion)
      [] m.kind = "EnPassant" ->
            SanNormal("Pawn", file(m.from), NoCoord, TRUE, m.to, NoRole)
      [] m.kind = "Castle" /\ file(m.rook) < file(m.king) -> SanCastleLong
      [] m.kind = "Castle" /\ ~(file(m.rook) < file(m.king)) -> SanCastleShort
      [] m.kind = "Put" -> SanPut(m.role, m.to)

\* A candidate that resolves whatever the SAN says about its origin.
retain_normal_any_origin(s, m) ==
    CASE m.kind = "Normal" ->
            s.capture = (m.capture # NoRole) /\ s.promotion = m.promotion
      [] m.kind = "EnPassant" -> s.capture /\ s.promotion = NoRole
      [] OTHER -> FALSE

\* A candidate that resolves whatever the SAN says about capturing.
retain_normal_any_capture(s, m) ==
    CASE m.kind \in {"Normal", "EnPassant"} ->
            /\ s.file = NoCoord \/ s.file = file(m.from)
            /\ s.rank = NoCoord \/ s.rank = rank(m.from)
            /\ s.promotion = (IF m.kind = "Normal" THEN m.promotion ELSE NoRole)
      [] OTHER -> FALSE

\* The closure to_move keeps the candidates of a San::Normal with.
retain_normal(s, m) ==
    CASE m.kind = "Normal" ->
            /\ s.file = NoCoord \/ s.file = file(m.from)
            /\ s.rank = NoCoord \/ s.rank = rank(m.from)
            /\ s.capture = (m.capture # NoRole)
            /\ s.promotion = m.promotion
      [] m.kind = "EnPassant" ->
            /\ s.file = NoCoord \/ s.file = file(m.from)
            /\ s.rank = NoCoord \/ s.rank = rank(m.from)
            /\ s.capture
            /\ s.promotion = NoRole
      [] OTHER -> FALSE

to_move(v, pos, s) ==
    LET legals ==
            CASE s.kind = "Normal" ->
                    retain(san_candidates(v, pos, s.role, s.to), LAMBDA m :
                        retain_normal(s, m))
              [] s.kind = "CastleShort" ->
                    retain(legal_moves(v, pos), LAMBDA m :
                        m.kind = "Castle" /\ file(m.king) < file(m.rook))
              [] s.kind = "CastleLong" ->
                    retain(legal_moves(v, pos), LAMBDA m :
                        m.kind = "Castle" /\ file(m.rook) < file(m.king))
              [] s.kind = "Put" ->
                    retain(san_candidates(v, pos, s.role, s.to), LAMBDA m :
                        m.kind = "Put")
              [] OTHER -> <<>>
    IN  IF s.kind = "Null" THEN [kind |-> "IllegalSan"]
        ELSE IF legals = <<>> THEN [kind |-> "IllegalSan"]
        ELSE IF Len(legals) = 1 THEN [kind |-> "Ok", move |-> legals[1]]
        ELSE [kind |-> "AmbiguousSan"]

(***************************************************************************)
(* SAN text: a text is a sequence of ASCII codes                           *)
(***************************************************************************)
\* Role::char and Role::from_char
role_char(role) ==
    CASE role = "Pawn" -> 112 [] role = "Knight" -> 110 [] role = "Bishop" -> 98
      [] role = "Rook" -> 114 [] role = "Queen" -> 113 [] role = "King" -> 107

to_ascii_uppercase(ch) == IF 97 <= ch /\ ch <= 122 THEN ch - 32 ELSE ch
to_ascii_lowercase(ch) == IF 65 <= ch /\ ch <= 90 THEN ch + 32 ELSE ch
is_uppercase(ch) == 65 <= ch /\ ch <= 90

Role_from_char(ch) ==
    IF \E r \in Roles : role_char(r) = to_ascii_lowercase(ch)
    THEN CHOOSE r \in Roles : role_char(r) = to_ascii_lowercase(ch)
    ELSE NoRole

rank_from_char(ch) == IF 49 <= ch /\ ch <= 56 THEN ch - 49 ELSE NoCoord
file_from_char(ch) == IF 97 <= ch /\ ch <= 104 THEN ch - 97 ELSE NoCoord

\* Display for Square and Square::from_bytes
Square_fmt(sq) == << 97 + file(sq), 49 + rank(sq) >>
Square_from_bytes(bytes) ==
    IF Len(bytes) = 2 /\ file_from_char(bytes[1]) # NoCoord
                      /\ rank_from_char(bytes[2]) # NoCoord
    THEN from_coords(file_from_char(bytes[1]), rank_from_char(bytes[2]))
    ELSE NoSquare

San_fmt(s) ==
    CASE s.kind = "Normal" ->
            (IF s.role # "Pawn" THEN << to_ascii_uppercase(role_char(s.role)) >> ELSE <<>>)
            \o (IF s.file # NoCoord THEN << 97 + s.file >> ELSE <<>>)
            \o (IF s.rank # NoCoord THEN << 49 + s.rank >> ELSE <<>>)
            \o (IF s.capture THEN << 120 >> ELSE <<>>)
            \o Square_fmt(s.to)
            \o (IF s.promotion # NoRole
                THEN << 61, to_ascii_uppercase(role_char(s.promotion)) >> ELSE <<>>)
      [] s.kind = "CastleShort" -> << 79, 45, 79 >>
      [] s.kind = "CastleLong" -> << 79, 45, 79, 45, 79 >>
      [] s.kind = "Put" /\ s.role = "Pawn" -> << 64 >> \o Square_fmt(s.to)
      [] s.kind = "Put" /\ s.role # "Pawn" ->
            << to_ascii_uppercase(role_char(s.role)), 64 >> \o Square_fmt(s.to)
      [] s.kind = "Null" -> << 45, 45 >>

SanPlus_fmt(sp) ==
    IF sp.checkmate THEN San_fmt(sp.san) \o << 35 >>
    ELSE IF sp.check THEN San_fmt(sp.san) \o << 43 >>
    ELSE San_fmt(sp.san)

ends_with(bytes, ch) == Len(bytes) > 0 /\ bytes[Len(bytes)] = ch

InvalidSan == [ok |-> FALSE]
SanOk(s) == [ok |-> TRUE, san |-> s]

\* The last part of San::from_bytes: the promotion, read at the cursor.
\* `nxt` is the position of the character held in `next`, 0 when it is None;
\* `cur` is the position the iterator has reached.
San_parse_promotion(t, role, f, r, capture, to, nxt, cur) ==
    IF nxt = 0 THEN SanOk(SanNormal(role, f, r, capture, to, NoRole))
    ELSE IF t[nxt] = 61
    THEN IF cur + 1 <= Len(t) /\ Role_from_char(t[cur + 1]) # NoRole
         THEN SanOk(SanNormal(role, f, r, capture, to, Role_from_char(t[cur + 1])))
         ELSE InvalidSan
    ELSE InvalidSan

San_parse_normal(t) ==
    IF Len(t) < 1 THEN InvalidSan
    ELSE
    LET upper == is_uppercase(t[1])
        role == IF upper THEN Role_from_char(t[1]) ELSE "Pawn"
        n1 == IF upper THEN 2 ELSE 1
    IN  IF role = NoRole \/ n1 > Len(t) THEN InvalidSan
        ELSE
        LET has_file == 97 <= t[n1] /\ t[n1] <= 104
            f == IF has_file THEN t[n1] - 97 ELSE NoCoord
            n2 == IF has_file THEN n1 + 1 ELSE n1
        IN  IF n2 > Len(t) THEN InvalidSan
            ELSE
            LET has_rank == 49 <= t[n2] /\ t[n2] <= 56
                r == IF has_rank THEN t[n2] - 49 ELSE NoCoord
                \* next: Option<&u8>
                n3 == IF has_rank THEN (IF n2 + 1 <= Len(t) THEN n2 + 1 ELSE 0) ELSE n2
                at(k) == IF k <= Len(t) THEN t[k] ELSE 0
                after(k) == IF k <= Len(t) THEN k ELSE 0
            IN  IF n3 = 0
                THEN IF f = NoCoord \/ r = NoCoord THEN InvalidSan
                     ELSE San_parse_promotion(t, role, NoCoord, NoCoord, FALSE,
                                              from_coords(f, r), 0, n2)
                ELSE IF t[n3] = 120
                THEN IF file_from_char(at(n3 + 1)) = NoCoord
                        \/ rank_from_char(at(n3 + 2)) = NoCoord
                     THEN InvalidSan
                     ELSE San_parse_promotion(t, role, f, r, TRUE,
                              from_coords(file_from_char(at(n3 + 1)),
                                          rank_from_char(at(n3 + 2))),
                              after(n3 + 3), n3 + 3)
                ELSE IF t[n3] = 61
                THEN IF f = NoCoord \/ r = NoCoord THEN InvalidSan
                     ELSE San_parse_promotion(t, role, NoCoord, NoCoord, FALSE,
                                              from_coords(f, r), n3, n3)
                ELSE IF file_from_char(t[n3]) = NoCoord
                        \/ rank_from_char(at(n3 + 1)) = NoCoord
                     THEN InvalidSan
                     ELSE San_parse_promotion(t, role, f, r, FALSE,
                              from_coords(file_from_char(t[n3]),
                                          rank_from_char(at(n3 + 1))),
                              after(n3 + 2), n3 + 2)

San_from_bytes(bytes) ==
    LET t == IF ends_with(bytes, 35) \/ ends_with(bytes, 43)
             THEN SubSeq(bytes, 1, Len(bytes) - 1) ELSE bytes
    IN  IF t = << 45, 45 >> THEN SanOk(SanNull)
        ELSE IF t = << 79, 45, 79 >> THEN SanOk(SanCastleShort)
        ELSE IF t = << 79, 45, 79, 45, 79 >> THEN SanOk(SanCastleLong)
        ELSE IF Len(t) = 3 /\ t[1] = 64
        THEN IF Square_from_bytes(SubSeq(t, 2, 3)) = NoSquare THEN InvalidSan
             ELSE SanOk(SanPut("Pawn", Square_from_bytes(SubSeq(t, 2, 3))))
        ELSE IF Len(t) = 4 /\ t[2] = 64
        THEN IF Role_from_char(t[1]) = NoRole
                \/ Square_from_bytes(SubSeq(t, 3, 4)) = NoSquare
             THEN InvalidSan
             ELSE SanOk(SanPut(Role_from_char(t[1]), Square_from_bytes(SubSeq(t, 3, 4))))
        ELSE San_parse_normal(t)

\* SanPlus::from_bytes with the two suffixes mixed up.
SanPlus_from_bytes_suffix_swapped(bytes) ==
    LET res == San_from_bytes(bytes)
    IN  IF res.ok
        THEN [ok |-> TRUE,
              sp |-> [san |-> res.san,
                      checkmate |-> ends_with(bytes, 43),
                      check |-> ends_with(bytes, 35)]]
        ELSE [ok |-> FALSE]

SanPlus_from_bytes(bytes) ==
    LET res == San_from_bytes(bytes)
    IN  IF res.ok
        THEN [ok |-> TRUE,
              sp |-> [san |-> res.san,
                      checkmate |-> ends_with(bytes, 35),
                      check |-> ends_with(bytes, 43)]]
        ELSE [ok |-> FALSE]

(***************************************************************************)
(* The state machine: a setup is validated, then moves are played          *)
(***************************************************************************)
VARIABLES variant, setup, result, pos, ply, played, sanplus, text, parsed, text2,
          query, attack
vars == << variant, setup, result, pos, ply, played, sanplus, text, parsed, text2,
           query, attack >>

MaxPly == 2

\* A setup with pockets and remaining checks.
SetupWith(placed, turn, rights, ep, pockets, remaining_checks) ==
    [board |-> BoardOf(placed), turn |-> turn, castling_rights |-> rights,
     ep_square |-> ep, halfmoves |-> 0, fullmoves |-> 1,
     pockets |-> pockets, remaining_checks |-> remaining_checks]

SetupOf(placed, turn, rights, ep) ==
    SetupWith(placed, turn, rights, ep, Material_default, RemainingChecks_default)

MkSetup(pieces, turn, rights, ep) == SetupOf(Range(pieces), turn, rights, ep)

ChessSetups ==
    <<
    \* rnbqkbnr/pppppppp/8/8/8/8/PPPPPPPP/RNBQKBNR w KQkq - 0 1
    MkSetup(<<
        <<Black, "Rook", 56>>, <<Black, "Knight", 57>>, <<Black, "Bishop", 58>>,
        <<Black, "Queen", 59>>, <<Black, "King", 60>>, <<Black, "Bishop", 61>>,
        <<Black, "Knight", 62>>, <<Black, "Rook", 63>>, <<Black, "Pawn", 48>>,
        <<Black, "Pawn", 49>>, <<Black, "Pawn", 50>>, <<Black, "Pawn", 51>>,
        <<Black, "Pawn", 52>>, <<Black, "Pawn", 53>>, <<Black, "Pawn", 54>>,
        <<Black, "Pawn", 55>>, <<White, "Pawn", 8>>, <<White, "Pawn", 9>>,
        <<White, "Pawn", 10>>, <<White, "Pawn", 11>>, <<White, "Pawn", 12>>,
        <<White, "Pawn", 13>>, <<White, "Pawn", 14>>, <<White, "Pawn", 15>>,
        <<White, "Rook", 0>>, <<White, "Knight", 1>>, <<White, "Bishop", 2>>,
        <<White, "Queen", 3>>, <<White, "King", 4>>, <<White, "Bishop", 5>>,
        <<White, "Knight", 6>>, <<White, "Rook", 7>> >>,
        White, {0, 7, 56, 63}, NoSquare),
    \* R2r2k1/6pp/1Np2p2/1p2pP2/4p3/4K3/3r2PP/8 b - - 5 37
    MkSetup(<<
        <<White, "Rook", 56>>, <<Black, "Rook", 59>>, <<Black, "King", 62>>,
        <<Black, "Pawn", 54>>, <<Black, "Pawn", 55>>, <<White, "Knight", 41>>,
        <<Black, "Pawn", 42>>, <<Black, "Pawn", 45>>, <<Black, "Pawn", 33>>,
        <<Black, "Pawn", 36>>, <<White, "Pawn", 37>>, <<Black, "Pawn", 28>>,
        <<White, "King", 20>>, <<Black, "Rook", 11>>, <<White, "Pawn", 14>>,
        <<White, "Pawn", 15>> >>,
        Black, {}, NoSquare),
    \* 3r3K/6PP/8/8/8/2k5/8/8 w - - 0 1
    MkSetup(<<
        <<Black, "Rook", 59>>, <<White, "King", 63>>, <<White, "Pawn", 54>>,
        <<White, "Pawn", 55>>, <<Black, "King", 18>> >>,
        White, {}, NoSquare),
    \* 4k3/8/8/3pP3/8/5n2/8/4K3 w - d6 0 1
    MkSetup(<<
        <<Black, "King", 60>>, <<Black, "Pawn", 35>>, <<White, "Pawn", 36>>,
        <<Black, "Knight", 21>>, <<White, "King", 4>> >>,
        White, {}, 43),
    \* r3k2r/8/8/8/8/5b2/8/R3K2R w KQkq - 0 1
    MkSetup(<<
        <<Black, "Rook", 56>>, <<Black, "King", 60>>, <<Black, "Rook", 63>>,
        <<Black, "Bishop", 21>>, <<White, "Rook", 0>>, <<White, "King", 4>>,
        <<White, "Rook", 7>> >>,
        White, {0, 7, 56, 63}, NoSquare),
    \* 4k3/8/8/8/R6Q/8/4Q3/RN2KN1Q w - - 0 1
    MkSetup(<<
        <<Black, "King", 60>>, <<White, "Rook", 24>>, <<White, "Queen", 31>>,
        <<White, "Queen", 12>>, <<White, "Rook", 0>>, <<White, "Knight", 1>>,
        <<White, "King", 4>>, <<White, "Knight", 5>>, <<White, "Queen", 7>> >>,
        White, {}, NoSquare),
    \* 8/8/8/K2pP2r/8/8/8/4k3 w - d6 0 1
    MkSetup(<<
        <<White, "King", 32>>, <<Black, "Pawn", 35>>, <<White, "Pawn", 36>>,
        <<Black, "Rook", 39>>, <<Black, "King", 4>> >>,
        White, {}, 43),
    \* 4k3/8/8/8/1b1Pp3/8/8/4K3 b - d3 0 1
    MkSetup(<<
        <<Black, "King", 60>>, <<Black, "Bishop", 25>>, <<White, "Pawn", 27>>,
        <<Black, "Pawn", 28>>, <<White, "King", 4>> >>,
        Black, {}, 19)
    >>

AtomicSetups ==
    <<
    \* 4k3/8/8/8/3n4/8/3PPP2/R3KB2 b Q - 0 1
    MkSetup(<<
        <<Black, "King", 60>>, <<Black, "Knight", 27>>, <<White, "Pawn", 11>>,
        <<White, "Pawn", 12>>, <<White, "Pawn", 13>>, <<White, "Rook", 0>>,
        <<White, "King", 4>>, <<White, "Bishop", 5>> >>,
        Black, {0}, NoSquare),
    \* 8/8/4k3/r7/4K3/8/3P4/8 w - - 0 1
    MkSetup(<<
        <<Black, "King", 44>>, <<Black, "Rook", 32>>, <<White, "King", 28>>,
        <<White, "Pawn", 11>> >>,
        White, {}, NoSquare)
    >>

NoPos == [kind |-> "None"]
NoSan == [kind |-> "None"]
NoText == << >>

NoQuery == [kind |-> "None"]
NoAttack == [kind |-> "None"]

SanIdle ==
    /\ sanplus = NoSan /\ text = NoText /\ parsed = NoSan /\ text2 = NoText
    /\ query = NoQuery /\ attack = NoAttack

Init ==
    /\ \/ variant = "Chess" /\ \E i \in 1..Len(ChessSetups) : setup = ChessSetups[i]
       \/ variant = "Atomic" /\ \E i \in 1..Len(AtomicSetups) : setup = AtomicSetups[i]
    /\ result = [kind |-> "None", errors |-> {}]
    /\ pos = NoPos
    /\ ply = 0
    /\ played = "None"
    /\ SanIdle

\* P::from_setup(&setup)
FromSetup ==
    /\ result.kind = "None"
    /\ \E r \in {from_setup(variant, setup)} :
           /\ result' = [kind |-> r.kind, errors |-> r.errors]
           /\ pos' = IF r.kind = "Panic" THEN pos ELSE r.pos
    /\ UNCHANGED << variant, setup, ply, played, sanplus, text, parsed, text2,
                 query, attack >>

\* The moves a caller may hand to play: every legal move and the moves the
\* generators propose before any king-safety filter, a castling move for each
\* wing and a drop.
CandidateMoves(v, p) ==
    LET king == king_of(p.board, p.turn)
        target == Squares \ us(p)
    IN  Range(legal_moves(v, p))
        \cup Range(gen_en_passant(p.board, p.turn, p.ep_square))
        \cup Range(gen_non_king(p, target))
        \cup Range(gen_moves("King", p, target))
        \cup (IF king = NoSquare THEN {}
              ELSE {Castle(king, from_coords(f, rank(king))) : f \in {0, 7}})
        \cup {Put("Queen", sq) : sq \in {first(Squares \ occupied(p.board))}}

\* Chess move generation starts with
\* board.king_of(turn).expect("king in standard chess").
king_expected(v, p) ==
    \/ inner(v) = "Chess" /\ ~is_variant_end(v, p) /\ king_of(p.board, p.turn) = NoSquare
    \/ v = "RacingKings" /\ \E c \in Colors : king_of(p.board, c) = NoSquare

\* pos.play(&m)
Play ==
    /\ result.kind = "Ok"
    /\ played # "Panic"
    /\ ply < MaxPly
    /\ IF king_expected(variant, pos)
       THEN played' = "Panic" /\ UNCHANGED << pos, ply >>
       ELSE \E m \in CandidateMoves(variant, pos) :
               \E r \in {play(variant, pos, m)} :
                   /\ pos' = r.pos
                   /\ played' = IF r.ok THEN "Ok" ELSE "Err"
                   /\ ply' = IF r.ok THEN ply + 1 ELSE ply
    /\ UNCHANGED << variant, setup, result, sanplus, text, parsed, text2,
                 query, attack >>

Next == FromSetup \/ Play

Spec == Init /\ [][Next]_vars

(***************************************************************************)
(* The variants, each from setups of its own                               *)
(***************************************************************************)
InitWith(v, setups) ==
    /\ variant = v
    /\ \E i \in 1..Len(setups) : setup = setups[i]
    /\ result = [kind |-> "None", errors |-> {}]
    /\ pos = NoPos
    /\ ply = 0
    /\ played = "None"
    /\ SanIdle

AtomicCaptureSetups ==
    <<
    AtomicSetups[1],
    \* r3k2r/8/8/4b3/3n4/8/1P2P3/R3K2R b KQkq - 0 1
    MkSetup(<<
        <<Black, "Rook", 56>>, <<Black, "King", 60>>, <<Black, "Rook", 63>>,
        <<Black, "Bishop", 36>>, <<Black, "Knight", 27>>, <<White, "Pawn", 9>>,
        <<White, "Pawn", 12>>, <<White, "Rook", 0>>, <<White, "King", 4>>,
        <<White, "Rook", 7>> >>,
        Black, {0, 7, 56, 63}, NoSquare),
    \* 4k3/2n1p3/8/3pP3/8/8/8/4K3 w - d6 0 1
    MkSetup(<<
        <<Black, "King", 60>>, <<Black, "Knight", 50>>, <<Black, "Pawn", 52>>,
        <<Black, "Pawn", 35>>, <<White, "Pawn", 36>>, <<White, "King", 4>> >>,
        White, {}, 43)
    >>

SpecAtomic == InitWith("Atomic", AtomicCaptureSetups) /\ [][Next]_vars

(***************************************************************************)
(* Validation of arbitrary setups                                          *)
(***************************************************************************)
\* Pieces around an en passant square: d6 with White to move, d3 with Black
\* to move; the pawn that made the double step, a pawn able to capture, a
\* piece on the square itself or behind it, and the two kings.
EpPool ==
    { <<Black, "Pawn", 35>>, <<White, "Pawn", 34>>, <<Black, "Knight", 43>>,
      <<Black, "Rook", 51>>, <<White, "Pawn", 27>>, <<Black, "Pawn", 28>>,
      <<White, "Knight", 11>>, <<White, "King", 7>>, <<Black, "King", 63>> }
EpSquares == {NoSquare, 43, 19, 27}

\* Black pieces that can attack a white king on e4, alone or together.
CheckPool ==
    { <<Black, "Rook", 60>>, <<Black, "Queen", 4>>, <<Black, "Rook", 24>>,
      <<Black, "Bishop", 55>>, <<Black, "Bishop", 1>>, <<Black, "Knight", 45>>,
      <<Black, "Pawn", 35>>, <<Black, "Bishop", 7>> }
CheckKings == { <<White, "King", 28>>, <<Black, "King", 57>> }

InitValidate ==
    /\ variant = "Chess"
    /\ \/ \E placed \in SUBSET EpPool, turn \in Colors, ep \in EpSquares :
             setup = SetupOf(placed, turn, {}, ep)
       \/ \E placed \in SUBSET CheckPool, turn \in Colors :
             setup = SetupOf(placed \cup CheckKings, turn, {}, NoSquare)
    /\ result = [kind |-> "None", errors |-> {}]
    /\ pos = NoPos
    /\ ply = 0
    /\ played = "None"
    /\ SanIdle

SpecValidate == InitValidate /\ [][FromSetup]_vars

(***************************************************************************)
(* SAN text: format, parse, format again                                   *)
(***************************************************************************)
SanFiles == {NoCoord, 0, 4}
SanRanks == {NoCoord, 1, 7}
SanSquares == {0, 28, 63}

SanValues ==
    { SanNormal(role, f, r, capture, to, promotion) :
        role \in Roles, f \in SanFiles, r \in SanRanks, capture \in BOOLEAN,
        to \in SanSquares, promotion \in Roles \cup {NoRole} }
    \cup { SanPut(role, to) : role \in Roles, to \in SanSquares }
    \cup { SanCastleShort, SanCastleLong, SanNull }

\* The suffixes: none, '+' and '#'.
SanSuffixes ==
    { [check |-> FALSE, checkmate |-> FALSE], [check |-> TRUE, checkmate |-> FALSE],
      [check |-> FALSE, checkmate |-> TRUE] }

InitSan ==
    /\ variant = "Chess"
    /\ setup = SetupOf({}, White, {}, NoSquare)
    /\ result = [kind |-> "None", errors |-> {}]
    /\ pos = NoPos
    /\ ply = 0
    /\ played = "None"
    /\ \E s \in SanValues, x \in SanSuffixes :
          sanplus = [san |-> s, check |-> x.check, checkmate |-> x.checkmate]
    /\ text = NoText
    /\ parsed = NoSan
    /\ text2 = NoText
    /\ query = NoQuery /\ attack = NoAttack

\* sanplus.to_string()
Format ==
    /\ text = NoText
    /\ text' = SanPlus_fmt(sanplus)
    /\ UNCHANGED << variant, setup, result, pos, ply, played, sanplus, parsed, text2,
                 query, attack >>

\* text.parse::<SanPlus>()
Parse ==
    /\ text # NoText
    /\ parsed = NoSan
    /\ parsed' = SanPlus_from_bytes(text)
    /\ UNCHANGED << variant, setup, result, pos, ply, played, sanplus, text, text2,
                 query, attack >>

\* .expect("valid san").to_string()
Reformat ==
    /\ parsed # NoSan
    /\ parsed.ok
    /\ text2 = NoText
    /\ text2' = SanPlus_fmt(parsed.sp)
    /\ UNCHANGED << variant, setup, result, pos, ply, played, sanplus, text, parsed,
                 query, attack >>

NextSan == Format \/ Parse \/ Reformat

SpecSan == InitSan /\ [][NextSan]_vars

(***************************************************************************)
(* Slider attacks: one lookup for a piece, a square and an occupancy        *)
(***************************************************************************)
MaxOccupied == 2

RECURSIVE Occupancies(_)
Occupancies(n) ==
    IF n = 0 THEN {{}}
    ELSE Occupancies(n - 1) \cup {o \cup {s} : o \in Occupancies(n - 1), s \in Squares}

Sliders == {"Bishop", "Rook", "Queen"}

InitAttacks ==
    /\ variant = "Chess"
    /\ setup = SetupOf({}, White, {}, NoSquare)
    /\ result = [kind |-> "None", errors |-> {}]
    /\ pos = NoPos
    /\ ply = 0
    /\ played = "None"
    /\ sanplus = NoSan /\ text = NoText /\ parsed = NoSan /\ text2 = NoText
    /\ \E sq \in Squares, occ \in Occupancies(MaxOccupied) :
          query = [sq |-> sq, occupied |-> occ]
    /\ attack = NoAttack

\* precomp.attacks(sq, piece, occupied) for a bishop, a rook or a queen
Attacks ==
    /\ attack = NoAttack
    /\ \E role \in Sliders :
          attack' = [role |-> role, bb |-> role_attacks(role, query.sq, query.occupied)]
    /\ UNCHANGED << variant, setup, result, pos, ply, played, sanplus, text, parsed,
                    text2, query >>

SpecAttacks == InitAttacks /\ [][Attacks]_vars

\* A position accepted by from_setup, or reached from one by play, on which
\* move generation runs to completion.
Valid == result.kind = "Ok" /\ ~king_expected(variant, pos)

(***************************************************************************)
(* Properties                                                              *)
(***************************************************************************)
InChess == Valid /\ variant = "Chess"
InAtomic == Valid /\ variant = "Atomic"

\* The mover's king after m is played, and the enemy pieces that attack it.
KingAttackedAfter(v, p, m) ==
    LET after == play_unchecked(v, p, m)
        king == king_of(after.board, p.turn)
    IN  /\ king # NoSquare
        /\ attacks_to(after.board, king, Not(p.turn), occupied(after.board)) # {}

\* C1: for a Chess position, no move returned by legal_moves leaves the
\* mover's own king attacked once the move is played.
C1_LegalMovesKeepKingSafe ==
    InChess =>
        \A m \in Range(legal_moves("Chess", pos)) : ~KingAttackedAfter("Chess", pos, m)

\* C2: play(m) hands back the unchanged position as an error when m is not
\* among the legal moves, and the state play_unchecked(m) produces otherwise.
C2_PlayChecksLegality ==
    Valid =>
        LET legals == Range(legal_moves(variant, pos))
        IN  \A m \in CandidateMoves(variant, pos) :
                play(variant, pos, m) =
                    IF m \in legals
                    THEN [ok |-> TRUE, pos |-> play_unchecked(variant, pos, m)]
                    ELSE [ok |-> FALSE, pos |-> pos]

C6_SanCandidatesAreFilteredLegals ==
    InChess =>
        LET legals == Chess_legal_moves(pos)
        IN  \A role \in Roles, to \in Squares :
                Range(Chess_san_candidates(pos, role, to))
                    = Range(filter_san_candidates(role, to, legals))

\* A move matches a SAN when role, destination, the optional origin file and
\* rank, the capture flag and the promotion agree, or the castling side, or
\* the drop.
Matches(s, m) ==
    CASE s.kind = "Normal" /\ m.kind = "Normal" ->
            /\ s.role = m.role /\ s.to = m.to
            /\ s.file \in {NoCoord, file(m.from)}
            /\ s.rank \in {NoCoord, rank(m.from)}
            /\ s.capture = (m.capture # NoRole)
            /\ s.promotion = m.promotion
      [] s.kind = "Normal" /\ m.kind = "EnPassant" ->
            /\ s.role = "Pawn" /\ s.to = m.to
            /\ s.file \in {NoCoord, file(m.from)}
            /\ s.rank \in {NoCoord, rank(m.from)}
            /\ s.capture
            /\ s.promotion = NoRole
      [] s.kind = "CastleShort" /\ m.kind = "Castle" -> file(m.king) < file(m.rook)
      [] s.kind = "CastleLong" /\ m.kind = "Castle" -> file(m.rook) < file(m.king)
      [] s.kind = "Put" /\ m.kind = "Put" -> s.role = m.role /\ s.to = m.to
      [] OTHER -> FALSE

\* SAN values tried on a position: for every legal move each choice of origin
\* file and origin rank, the wrong capture flag, the wrong promotion, the
\* drop of its piece on its destination; both castlings and the null move.
SanProbes(v, p) ==
    LET steps == {m \in Range(legal_moves(v, p)) : m.kind \in {"Normal", "EnPassant"}}
        role(m) == IF m.kind = "Normal" THEN m.role ELSE "Pawn"
        promotion(m) == IF m.kind = "Normal" THEN m.promotion ELSE NoRole
        capture(m) == is_capture(m)
    IN  UNION { { SanNormal(role(m), f, r, capture(m), m.to, promotion(m)) :
                    f \in {NoCoord, file(m.from)}, r \in {NoCoord, rank(m.from)} }
                \cup { SanNormal(role(m), NoCoord, NoCoord, ~capture(m), m.to,
                                 promotion(m)),
                       SanNormal(role(m), NoCoord, NoCoord, capture(m), m.to,
                                 IF promotion(m) = NoRole THEN "Queen" ELSE NoRole),
                       SanPut(role(m), m.to) } : m \in steps }
        \cup { SanCastleShort, SanCastleLong, SanNull }

C5_SanTextRoundTrip ==
    /\ parsed # NoSan => parsed.ok
    /\ text2 # NoText => text2 = text

\* from_setup has run to completion on the setup.
Reported == variant = "Chess" /\ result.kind \in {"Ok", "Err"}

\* The en passant square of the setup is set and (a) off the relative sixth
\* rank, or (b) the square in front of it holds no enemy pawn, or (c) it or
\* the square behind it is occupied.
BadEpSquare(s) ==
    LET ep == s.ep_square
        front == ep + (IF s.turn = White THEN -8 ELSE 8)
        behind == ep + (IF s.turn = White THEN 8 ELSE -8)
        enemy_pawns == s.board.by_role["Pawn"] \cap s.board.by_color[Not(s.turn)]
    IN  /\ ep # NoSquare
        /\ \/ rank(ep) # (IF s.turn = White THEN 5 ELSE 2)
           \/ front \notin enemy_pawns
           \/ ep \in occupied(s.board)
           \/ behind \in occupied(s.board)

\* C7: from_setup reports INVALID_EP_SQUARE for every setup whose en passant
\* square is set and misplaced, also when no pawn can capture en passant.
C7_BadEpSquareReported ==
    (Reported /\ BadEpSquare(setup)) => "INVALID_EP_SQUARE" \in result.errors

KingMissing(s) ==
    \E c \in Colors : s.board.by_role["King"] \cap s.board.by_color[c] = {}

\* C8: from_setup completes for every setup, and reports MISSING_KING for
\* every setup in which a side has no king.
C8_FromSetupCompletes ==
    (variant = "Chess" /\ result.kind # "None") =>
        /\ result.kind \in {"Ok", "Err"}
        /\ KingMissing(setup) => "MISSING_KING" \in result.errors

\* Three squares on one rank, file or diagonal.
Collinear(a, b, c) ==
    \/ file(a) = file(b) /\ file(b) = file(c)
    \/ rank(a) = rank(b) /\ rank(b) = rank(c)
    \/ file(a) - rank(a) = file(b) - rank(b) /\ file(b) - rank(b) = file(c) - rank(c)
    \/ file(a) + rank(a) = file(b) + rank(b) /\ file(b) + rank(b) = file(c) + rank(c)

\* The enemy pieces attacking the king of the side to move.
SetupCheckers(s) ==
    LET kings == s.board.by_role["King"] \cap s.board.by_color[s.turn]
    IN  IF kings = {} THEN {}
        ELSE attacks_to(s.board, first(kings), Not(s.turn), occupied(s.board))

\* C9: from_setup reports IMPOSSIBLE_CHECK exactly when the king of the side
\* to move is attacked by more than two pieces, or by two on a line with it.
C9_ImpossibleCheckExact ==
    Reported =>
        LET att == SetupCheckers(setup)
            king == first(setup.board.by_role["King"] \cap setup.board.by_color[setup.turn])
        IN  "IMPOSSIBLE_CHECK" \in result.errors
                <=> \/ Cardinality(att) > 2
                    \/ /\ Cardinality(att) = 2
                       /\ \A a \in att, b \in att : a # b => Collinear(a, b, king)

\* The empty squares next to both kings, and the king steps in the list.
BetweenKings(p) ==
    LET king == king_of(p.board, p.turn)
        enemy == king_of(p.board, Not(p.turn))
    IN  IF king = NoSquare \/ enemy = NoSquare THEN {}
        ELSE (king_attacks(king) \cap king_attacks(enemy)) \ occupied(p.board)

KingMovesTo(v, p) ==
    {m.to : m \in {k \in Range(legal_moves(v, p)) : k.kind = "Normal" /\ k.role = "King"}}

\* C10 as stated: in Atomic no legal king move ends next to the enemy king.
C10_NoKingMoveNextToKing ==
    InAtomic =>
        LET enemy == king_of(pos.board, Not(pos.turn))
        IN  enemy # NoSquare => KingMovesTo("Atomic", pos) \cap king_attacks(enemy) = {}

\* C10, amended: in Atomic a king may step onto every empty square next to
\* the enemy king, attacked or not, and a king never captures.
C10_KingMayStepNextToKing ==
    InAtomic =>
        /\ BetweenKings(pos) \subseteq KingMovesTo("Atomic", pos)
        /\ KingMovesTo("Atomic", pos) \cap occupied(pos.board) = {}

(***************************************************************************)
(* Reachable cases of the properties                                       *)
(***************************************************************************)
\* A move that is not legal was refused after a legal one was played.
C2_Witness == Valid /\ ply = 1 /\ played = "Err"

C5_Witness ==
    /\ text2 # NoText
    /\ sanplus.checkmate
    /\ sanplus.san.kind = "Normal"
    /\ sanplus.san.capture
    /\ sanplus.san.file # NoCoord /\ sanplus.san.rank # NoCoord
    /\ sanplus.san.promotion # NoRole

\* A Chess position in check with a pinned piece, in which some piece still
\* has a candidate.
C6_Witness ==
    /\ InChess
    /\ checkers("Chess", pos) # {}
    /\ slider_blockers(pos.board, them(pos), king_of(pos.board, pos.turn))
          \cap us(pos) # {}
    /\ \E role \in Roles \ {"King"}, to \in Squares :
          Chess_san_candidates(pos, role, to) # <<>>

\* Two checkers on a line with the king were reported.
C9_Witness ==
    /\ Reported
    /\ Cardinality(SetupCheckers(setup)) = 2
    /\ "IMPOSSIBLE_CHECK" \in result.errors

\* An empty square next to both kings that an enemy piece attacks.
C10_Witness ==
    /\ InAtomic
    /\ \E to \in BetweenKings(pos) :
          /\ attacks_to(pos.board, to, Not(pos.turn), occupied(pos.board))
                \ pos.board.by_role["King"] # {}
          /\ to \in KingMovesTo("Atomic", pos)

\* rnbqkbnr/pppppppp/8/8/8/8/PPPPPPPP/RNBQKBNR w - - 0 1
InitialNoCastling == [ChessSetups[1] EXCEPT !.castling_rights = {}]

AntichessSetups ==
    <<
    InitialNoCastling,
    \* 8/8/8/3p4/4P3/8/8/R7 w - - 0 1
    MkSetup(<<
        <<Black, "Pawn", 35>>, <<White, "Pawn", 28>>, <<White, "Rook", 0>> >>,
        White, {}, NoSquare),
    \* 8/p7/8/8/8/8/P7/8 w - - 0 1
    MkSetup(<<
        <<Black, "Pawn", 48>>, <<White, "Pawn", 8>> >>,
        White, {}, NoSquare),
    \* 8/8/8/3pP3/8/8/8/8 w - d6 0 1
    MkSetup(<<
        <<Black, "Pawn", 35>>, <<White, "Pawn", 36>> >>,
        White, {}, 43),
    \* 8/P7/8/8/8/8/1p6/K6k w - - 0 1
    MkSetup(<<
        <<White, "Pawn", 48>>, <<Black, "Pawn", 9>>, <<White, "King", 0>>,
        <<Black, "King", 7>> >>,
        White, {}, NoSquare)
    >>

SpecAntichess == InitWith("Antichess", AntichessSetups) /\ [][Next]_vars

KingOfTheHillSetups ==
    <<
    \* 4k3/8/8/8/8/4K3/3P4/8 w - - 0 1
    MkSetup(<<
        <<Black, "King", 60>>, <<White, "King", 20>>, <<White, "Pawn", 11>> >>,
        White, {}, NoSquare),
    \* 8/8/4k3/8/8/2p5/8/R3K2R b KQ - 0 1
    MkSetup(<<
        <<Black, "King", 44>>, <<Black, "Pawn", 18>>, <<White, "Rook", 0>>,
        <<White, "King", 4>>, <<White, "Rook", 7>> >>,
        Black, {0, 7}, NoSquare),
    \* 4k3/8/8/8/4K3/8/8/8 b - - 0 1
    MkSetup(<<
        <<Black, "King", 60>>, <<White, "King", 28>> >>,
        Black, {}, NoSquare),
    \* 7k/P7/8/3pP3/8/4K3/8/8 w - d6 0 1
    MkSetup(<<
        <<Black, "King", 63>>, <<White, "Pawn", 48>>, <<Black, "Pawn", 35>>,
        <<White, "Pawn", 36>>, <<White, "King", 20>> >>,
        White, {}, 43)
    >>

SpecKingOfTheHill == InitWith("KingOfTheHill", KingOfTheHillSetups) /\ [][Next]_vars

Checks(white, black) == [c \in Colors |-> IF c = White THEN white ELSE black]

\* r3k3/8/8/8/8/8/8/R3K3 w - - 0 1 and 4k3/8/8/8/8/8/4q3/R3K3 b - - 0 1 with
\* the remaining checks of each side
ThreeCheckSetups ==
    <<
    SetupWith({<<Black, "Rook", 56>>, <<Black, "King", 60>>, <<White, "Rook", 0>>,
               <<White, "King", 4>>}, White, {}, NoSquare, Material_default, Checks(3, 3)),
    SetupWith({<<Black, "Rook", 56>>, <<Black, "King", 60>>, <<White, "Rook", 0>>,
               <<White, "King", 4>>}, White, {}, NoSquare, Material_default, Checks(1, 1)),
    SetupWith({<<Black, "Rook", 56>>, <<Black, "King", 60>>, <<White, "Rook", 0>>,
               <<White, "King", 4>>}, White, {}, NoSquare, Material_default, Checks(0, 2)),
    SetupWith({<<Black, "Rook", 56>>, <<Black, "King", 60>>, <<White, "Rook", 0>>,
               <<White, "King", 4>>}, White, {}, NoSquare, Material_default, Checks(0, 0)),
    SetupWith({<<Black, "Queen", 12>>, <<Black, "King", 60>>, <<White, "Rook", 0>>,
               <<White, "King", 4>>}, White, {}, NoSquare, Material_default, Checks(2, 1))
    >>

SpecThreeCheck == InitWith("ThreeCheck", ThreeCheckSetups) /\ [][Next]_vars

\* A pocket with the given counts, and the pockets of both sides.
Pocket(counts) == [r \in Roles |-> IF r \in DOMAIN counts THEN counts[r] ELSE 0]
Pockets(white, black) == [c \in Colors |-> IF c = White THEN Pocket(white) ELSE Pocket(black)]
NoCounts == [r \in {} |-> 0]

CrazyhouseSetups ==
    <<
    \* 4k3/8/8/8/8/8/8/4K3[P] w - - 0 1
    SetupWith({<<Black, "King", 60>>, <<White, "King", 4>>}, White, {}, NoSquare,
              Pockets([Pawn |-> 2], NoCounts), RemainingChecks_default),
    \* 7k/8/8/8/8/p7/r7/4K3[N] b - - 0 1
    SetupWith({<<Black, "King", 63>>, <<Black, "Pawn", 16>>, <<Black, "Rook", 8>>,
               <<White, "King", 4>>}, Black, {}, NoSquare,
              Pockets([Knight |-> 1], NoCounts), RemainingChecks_default),
    \* 4k3/8/8/8/8/8/8/r3K3[QPp] w - - 0 1
    SetupWith({<<Black, "King", 60>>, <<Black, "Rook", 0>>, <<White, "King", 4>>},
              White, {}, NoSquare,
              Pockets([Queen |-> 1, Pawn |-> 1], [Pawn |-> 1]), RemainingChecks_default),
    \* 4k3/8/8/8/8/3n4/8/r3K3[Q] w - - 0 1
    SetupWith({<<Black, "King", 60>>, <<Black, "Knight", 19>>, <<Black, "Rook", 0>>,
               <<White, "King", 4>>}, White, {}, NoSquare,
              Pockets([Queen |-> 1], NoCounts), RemainingChecks_default),
    \* 1r2k3/P7/8/8/8/8/8/4K3[] w - - 0 1
    SetupWith({<<Black, "Rook", 57>>, <<Black, "King", 60>>, <<White, "Pawn", 48>>,
               <<White, "King", 4>>}, White, {}, NoSquare,
              Material_default, RemainingChecks_default),
    \* 4k3/8/8/3pP3/8/8/8/4K2R[] w K d6 0 1
    SetupWith({<<Black, "King", 60>>, <<Black, "Pawn", 35>>, <<White, "Pawn", 36>>,
               <<White, "King", 4>>, <<White, "Rook", 7>>}, White, {7}, 43,
              Material_default, RemainingChecks_default),
    \* 4k3/8/8/8/8/8/8/4K3[K] w - - 0 1
    SetupWith({<<Black, "King", 60>>, <<White, "King", 4>>}, White, {}, NoSquare,
              Pockets([King |-> 1], NoCounts), RemainingChecks_default)
    >>

SpecCrazyhouse == InitWith("Crazyhouse", CrazyhouseSetups) /\ [][Next]_vars

RacingKingsSetups ==
    <<
    \* 8/8/8/8/8/8/krbnNBRK/qrbnNBRQ w - - 0 1
    MkSetup(<<
        <<Black, "King", 8>>, <<Black, "Rook", 9>>, <<Black, "Bishop", 10>>,
        <<Black, "Knight", 11>>, <<White, "Knight", 12>>, <<White, "Bishop", 13>>,
        <<White, "Rook", 14>>, <<White, "King", 15>>, <<Black, "Queen", 0>>,
        <<Black, "Rook", 1>>, <<Black, "Bishop", 2>>, <<Black, "Knight", 3>>,
        <<White, "Knight", 4>>, <<White, "Bishop", 5>>, <<White, "Rook", 6>>,
        <<White, "Queen", 7>> >>,
        White, {}, NoSquare),
    \* 1k6/6K1/8/8/8/8/8/8 w - - 0 1
    MkSetup(<<
        <<Black, "King", 57>>, <<White, "King", 54>> >>,
        White, {}, NoSquare),
    \* 1K6/7k/8/8/8/8/8/8 b - - 0 1
    MkSetup(<<
        <<White, "King", 57>>, <<Black, "King", 55>> >>,
        Black, {}, NoSquare),
    \* kr3NK1/1q2R3/8/8/8/5n2/2N5/1rb2B1R w - - 11 14
    MkSetup(<<
        <<Black, "King", 56>>, <<Black, "Rook", 57>>, <<White, "Knight", 61>>,
        <<White, "King", 62>>, <<Black, "Queen", 49>>, <<White, "Rook", 52>>,
        <<Black, "Knight", 21>>, <<White, "Knight", 10>>, <<Black, "Rook", 1>>,
        <<Black, "Bishop", 2>>, <<White, "Bishop", 5>>, <<White, "Rook", 7>> >>,
        White, {}, NoSquare),
    \* 1K3R2/7k/8/8/8/8/8/8 b - - 0 1
    MkSetup(<<
        <<White, "King", 57>>, <<White, "Rook", 61>>, <<Black, "King", 55>> >>,
        Black, {}, NoSquare),
    \* 1K4nr/7k/8/8/8/8/8/8 b - - 0 1
    MkSetup(<<
        <<White, "King", 57>>, <<Black, "Knight", 62>>, <<Black, "Rook", 63>>,
        <<Black, "King", 55>> >>,
        Black, {}, NoSquare),
    \* 8/1K5k/8/8/8/8/8/R7 w - - 0 1
    MkSetup(<<
        <<White, "King", 49>>, <<Black, "King", 55>>, <<White, "Rook", 0>> >>,
        White, {}, NoSquare),
    \* 8/1K6/8/8/8/8/6rk/8 w - - 0 1
    MkSetup(<<
        <<White, "King", 49>>, <<Black, "Rook", 14>>, <<Black, "King", 15>> >>,
        White, {}, NoSquare),
    \* 6r1/1K5k/8/8/8/8/8/8 w - - 0 1
    MkSetup(<<
        <<Black, "Rook", 62>>, <<White, "King", 49>>, <<Black, "King", 55>> >>,
        White, {}, NoSquare)
    >>

SpecRacingKings == InitWith("RacingKings", RacingKingsSetups) /\ [][Next]_vars

\* Positions at or near the end of a game, each with its variant.
EndSetups ==
    <<
    \* 7k/5KQ1/8/8/8/8/8/8 b - - 0 1
    <<"Chess", MkSetup(<<
        <<Black, "King", 63>>, <<White, "King", 53>>, <<White, "Queen", 54>> >>,
        Black, {}, NoSquare)>>,
    \* 7k/5K2/6Q1/8/8/8/8/8 b - - 0 1
    <<"Chess", MkSetup(<<
        <<Black, "King", 63>>, <<White, "King", 53>>, <<White, "Queen", 46>> >>,
        Black, {}, NoSquare)>>,
    \* 4k3/8/8/8/8/8/8/4K3 w - - 0 1
    <<"Chess", MkSetup(<<
        <<Black, "King", 60>>, <<White, "King", 4>> >>,
        White, {}, NoSquare)>>,
    <<"Atomic", AtomicSetups[1]>>,
    \* 8/8/8/8/8/8/P7/8 w - - 0 1
    <<"Antichess", MkSetup(<<
        <<White, "Pawn", 8>> >>,
        White, {}, NoSquare)>>,
    <<"Antichess", AntichessSetups[2]>>,
    <<"KingOfTheHill", KingOfTheHillSetups[1]>>,
    <<"KingOfTheHill", KingOfTheHillSetups[3]>>,
    <<"ThreeCheck", ThreeCheckSetups[2]>>,
    <<"ThreeCheck", ThreeCheckSetups[3]>>,
    <<"Crazyhouse", CrazyhouseSetups[4]>>,
    <<"RacingKings", RacingKingsSetups[2]>>,
    <<"RacingKings", RacingKingsSetups[3]>>,
    \* 4k3/8/8/8/8/8/8/8 b - - 0 1
    <<"Horde", MkSetup(<<
        <<Black, "King", 60>> >>,
        Black, {}, NoSquare)>>,
    \* 4k3/8/8/8/8/8/PP6/8 w - - 0 1
    <<"Horde", MkSetup(<<
        <<Black, "King", 60>>, <<White, "Pawn", 8>>, <<White, "Pawn", 9>> >>,
        White, {}, NoSquare)>>
    >>

InitVariants == \E i \in 1..Len(EndSetups) : InitWith(EndSetups[i][1], <<EndSetups[i][2]>>)

SpecVariants == InitVariants /\ [][Next]_vars

(***************************************************************************)
(* Horde setups with no king, one king and several kings                   *)
(***************************************************************************)
HordeKingPool ==
    { <<White, "King", 0>>, <<White, "King", 7>>, <<Black, "King", 56>>,
      <<Black, "King", 63>>, <<White, "Pawn", 27>>, <<Black, "Rook", 59>> }

InitHordeKings ==
    /\ variant = "Horde"
    /\ \E placed \in SUBSET HordeKingPool, turn \in Colors, flagged \in BOOLEAN :
          setup = [SetupOf(placed, turn, {}, NoSquare) EXCEPT
                      !.board.promoted =
                          IF flagged THEN {p[3] : p \in {q \in placed : q[2] = "King"}}
                          ELSE {}]
    /\ result = [kind |-> "None", errors |-> {}]
    /\ pos = NoPos
    /\ ply = 0
    /\ played = "None"
    /\ SanIdle

SpecHordeKings == InitHordeKings /\ [][FromSetup]_vars

(***************************************************************************)
(* Castling: free, through an attacked square, out of check, blocked, and  *)
(* from Chess960 arrangements of king and rooks                            *)
(***************************************************************************)
CastlingSetups ==
    <<
    \* r3k2r/8/8/8/8/8/8/R3K2R w KQkq - 0 1
    MkSetup(<<
        <<Black, "Rook", 56>>, <<Black, "King", 60>>, <<Black, "Rook", 63>>,
        <<White, "Rook", 0>>, <<White, "King", 4>>, <<White, "Rook", 7>> >>,
        White, {0, 7, 56, 63}, NoSquare),
    \* r3k2r/8/8/8/8/1r3r2/8/R3K2R w KQkq - 0 1
    MkSetup(<<
        <<Black, "Rook", 56>>, <<Black, "King", 60>>, <<Black, "Rook", 63>>,
        <<Black, "Rook", 17>>, <<Black, "Rook", 21>>, <<White, "Rook", 0>>,
        <<White, "King", 4>>, <<White, "Rook", 7>> >>,
        White, {0, 7, 56, 63}, NoSquare),
    \* 4k3/8/8/8/8/4r3/8/R3K2R w KQ - 0 1
    MkSetup(<<
        <<Black, "King", 60>>, <<Black, "Rook", 20>>, <<White, "Rook", 0>>,
        <<White, "King", 4>>, <<White, "Rook", 7>> >>,
        White, {0, 7}, NoSquare),
    \* 4k3/8/8/8/8/8/8/RN2K1NR w KQ - 0 1
    MkSetup(<<
        <<Black, "King", 60>>, <<White, "Rook", 0>>, <<White, "Knight", 1>>,
        <<White, "King", 4>>, <<White, "Knight", 6>>, <<White, "Rook", 7>> >>,
        White, {0, 7}, NoSquare),
    \* 4k3/8/8/8/8/8/7p/R3K2R w KQ - 0 1
    MkSetup(<<
        <<Black, "King", 60>>, <<Black, "Pawn", 15>>, <<White, "Rook", 0>>,
        <<White, "King", 4>>, <<White, "Rook", 7>> >>,
        White, {0, 7}, NoSquare),
    \* 4k3/8/8/8/8/8/8/rRK5 w B - 0 1
    MkSetup(<<
        <<Black, "King", 60>>, <<Black, "Rook", 0>>, <<White, "Rook", 1>>,
        <<White, "King", 2>> >>,
        White, {1}, NoSquare),
    \* 4k3/8/8/8/8/8/8/RK5R w KQ - 0 1
    MkSetup(<<
        <<Black, "King", 60>>, <<White, "Rook", 0>>, <<White, "King", 1>>,
        <<White, "Rook", 7>> >>,
        White, {0, 7}, NoSquare),
    \* 1r4kr/8/8/8/8/8/8/3QK3 b bh - 0 1
    MkSetup(<<
        <<Black, "Rook", 57>>, <<Black, "King", 62>>, <<Black, "Rook", 63>>,
        <<White, "King", 4>>, <<White, "Queen", 3>> >>,
        Black, {57, 63}, NoSquare)
    >>

SpecCastling == InitWith("Chess", CastlingSetups) /\ [][Next]_vars

(***************************************************************************)
(* Games: the initial position of every variant and positions late in a    *)
(* game, one or two moves before its end                                   *)
(***************************************************************************)
\* rnbqkbnr/pppppppp/8/1PP2PP1/PPPPPPPP/PPPPPPPP/PPPPPPPP/PPPPPPPP w kq - 0 1
HordeInitial ==
    SetupOf({<<White, "Pawn", s>> : s \in (0..31) \cup {33, 34, 37, 38}}
            \cup {<<Black, "Pawn", s>> : s \in 48..55}
            \cup { <<Black, "Rook", 56>>, <<Black, "Knight", 57>>, <<Black, "Bishop", 58>>,
                   <<Black, "Queen", 59>>, <<Black, "King", 60>>, <<Black, "Bishop", 61>>,
                   <<Black, "Knight", 62>>, <<Black, "Rook", 63>> },
            White, {56, 63}, NoSquare)

GameSetups ==
    <<
    <<"Chess", ChessSetups[1]>>,
    <<"Atomic", ChessSetups[1]>>,
    <<"Antichess", InitialNoCastling>>,
    <<"KingOfTheHill", ChessSetups[1]>>,
    <<"ThreeCheck", ChessSetups[1]>>,
    <<"Crazyhouse", ChessSetups[1]>>,
    <<"RacingKings", RacingKingsSetups[1]>>,
    <<"Horde", HordeInitial>>,
    \* 7k/5K2/8/6Q1/8/8/8/8 w - - 0 1: mate on g7, stalemate on g6
    <<"Chess", MkSetup(<<
        <<Black, "King", 63>>, <<White, "King", 53>>, <<White, "Queen", 38>> >>,
        White, {}, NoSquare)>>,
    \* 8/8/8/8/8/8/k7/R2K4 b - - 0 1: the king takes the last piece
    <<"Chess", MkSetup(<<
        <<Black, "King", 8>>, <<White, "Rook", 0>>, <<White, "King", 3>> >>,
        Black, {}, NoSquare)>>,
    \* r3k2r/8/8/4b3/3n4/8/1P2P3/R3K2R b KQkq - 0 1: Nxe2 explodes the king
    <<"Atomic", AtomicCaptureSetups[2]>>,
    \* 8/8/8/8/8/1p6/P7/8 w - - 0 1: the last black piece must be taken
    <<"Antichess", MkSetup(<<
        <<Black, "Pawn", 17>>, <<White, "Pawn", 8>> >>,
        White, {}, NoSquare)>>,
    \* 8/p7/8/8/8/8/P7/8 w - - 0 1: pawns that run into each other
    <<"Antichess", AntichessSetups[3]>>,
    <<"KingOfTheHill", KingOfTheHillSetups[1]>>,
    <<"ThreeCheck", ThreeCheckSetups[2]>>,
    <<"ThreeCheck", ThreeCheckSetups[5]>>,
    \* 7k/5K2/8/8/8/8/8/8[Q] w - - 0 1: mate by a drop on g7
    <<"Crazyhouse", SetupWith({<<Black, "King", 63>>, <<White, "King", 53>>},
                              White, {}, NoSquare,
                              Pockets([Queen |-> 1], NoCounts), RemainingChecks_default)>>,
    <<"RacingKings", RacingKingsSetups[2]>>,
    <<"RacingKings", RacingKingsSetups[7]>>,
    \* 4k3/8/8/8/8/8/1p6/P7 b - - 0 1: the last pawn of the horde is taken
    <<"Horde", MkSetup(<<
        <<Black, "King", 60>>, <<Black, "Pawn", 9>>, <<White, "Pawn", 0>> >>,
        Black, {}, NoSquare)>>,
    \* 4k3/8/8/8/8/8/PP6/8 w - - 0 1
    <<"Horde", MkSetup(<<
        <<Black, "King", 60>>, <<White, "Pawn", 8>>, <<White, "Pawn", 9>> >>,
        White, {}, NoSquare)>>
    >>

InitGames == \E i \in 1..Len(GameSetups) : InitWith(GameSetups[i][1], <<GameSetups[i][2]>>)

SpecGames == InitGames /\ [][Next]_vars

(***************************************************************************)
(* Pawns about to promote and pawns on their first steps, in every variant *)
(***************************************************************************)
\* 1r2k3/P3p3/8/8/8/8/3P3p/4K3 w - - 0 1
PawnPieces ==
    { <<Black, "Rook", 57>>, <<Black, "King", 60>>, <<White, "Pawn", 48>>,
      <<Black, "Pawn", 52>>, <<White, "Pawn", 11>>, <<Black, "Pawn", 15>>,
      <<White, "King", 4>> }

\* 1r2k1p1/P3p3/8/8/8/8/3P3p/P7 w - - 0 1: a horde with a pawn on its first
\* rank, a black pawn on the eighth
HordePawnPieces ==
    (PawnPieces \ {<<White, "King", 4>>})
        \cup {<<White, "Pawn", 0>>, <<Black, "Pawn", 62>>}

PawnSetups ==
    <<
    <<"Chess", SetupOf(PawnPieces, White, {}, NoSquare)>>,
    <<"Chess", SetupOf(PawnPieces, Black, {}, NoSquare)>>,
    <<"Atomic", SetupOf(PawnPieces, White, {}, NoSquare)>>,
    <<"Antichess", SetupOf(PawnPieces, White, {}, NoSquare)>>,
    <<"KingOfTheHill", SetupOf(PawnPieces, White, {}, NoSquare)>>,
    <<"ThreeCheck", SetupOf(PawnPieces, White, {}, NoSquare)>>,
    <<"Crazyhouse", SetupWith(PawnPieces, White, {}, NoSquare,
                              Pockets([Pawn |-> 1], [Pawn |-> 1]),
                              RemainingChecks_default)>>,
    <<"RacingKings", RacingKingsSetups[1]>>,
    \* 4k3/8/8/3pP3/8/8/8/4K2R w K d6 0 1
    <<"Chess", CrazyhouseSetups[6]>>,
    <<"Atomic", CrazyhouseSetups[6]>>,
    <<"Horde", SetupOf(HordePawnPieces, White, {}, NoSquare)>>,
    <<"Horde", SetupOf(HordePawnPieces, Black, {}, NoSquare)>>
    >>

InitPawns == \E i \in 1..Len(PawnSetups) : InitWith(PawnSetups[i][1], <<PawnSetups[i][2]>>)

SpecPawns == InitPawns /\ [][Next]_vars

(***************************************************************************)
(* En passant squares stored by a setup or by a double push, in Chess and  *)
(* the variants built on it                                                *)
(***************************************************************************)
\* 8/8/8/5k2/3p4/8/4P3/4K3 w - - 0 1: e2-e4 gives check and can be taken en
\* passant from d4
EpCheckPieces ==
    { <<Black, "King", 37>>, <<Black, "Pawn", 27>>, <<White, "Pawn", 12>>,
      <<White, "King", 4>> }

EpSetups ==
    <<
    \* 8/8/8/K2pP2r/8/8/8/4k3 w - d6 0 1
    <<"Chess", ChessSetups[7]>>,
    \* 4k3/8/8/8/1b1Pp3/8/8/4K3 b - d3 0 1
    <<"Chess", ChessSetups[8]>>,
    <<"Chess", SetupOf(EpCheckPieces, White, {}, NoSquare)>>,
    <<"Chess", SetupOf(PawnPieces, White, {}, NoSquare)>>,
    <<"KingOfTheHill", SetupOf(EpCheckPieces, White, {}, NoSquare)>>,
    <<"KingOfTheHill", ChessSetups[8]>>,
    <<"Crazyhouse", SetupOf(EpCheckPieces, White, {}, NoSquare)>>,
    <<"Crazyhouse", ChessSetups[7]>>,
    <<"ThreeCheck", ChessSetups[8]>>,
    <<"ThreeCheck", SetupWith(EpCheckPieces, White, {}, NoSquare,
                              Material_default, Checks(3, 3))>>,
    <<"ThreeCheck", SetupWith(EpCheckPieces, White, {}, NoSquare,
                              Material_default, Checks(1, 3))>>
    >>

InitEp == \E i \in 1..Len(EpSetups) : InitWith(EpSetups[i][1], <<EpSetups[i][2]>>)

SpecEp == InitEp /\ [][Next]_vars

(***************************************************************************)
(* Properties of the variants                                              *)
(***************************************************************************)
In(v) == Valid /\ variant = v

\* The piece standing on a square: its color and role, or nothing.
PieceOn(board, sq) ==
    IF sq \in board.by_color[White] THEN <<White, role_at(board, sq)>>
    ELSE IF sq \in board.by_color[Black] THEN <<Black, role_at(board, sq)>>
    ELSE << >>

Adjacent(t) ==
    {s \in Squares \ {t} : file(s) - file(t) \in {-1, 0, 1} /\ rank(s) - rank(t) \in {-1, 0, 1}}

\* The square of the piece a capture takes.
TakenOn(m) ==
    IF m.kind = "EnPassant" THEN from_coords(file(m.to), rank(m.from)) ELSE m.to

\* What a capture onto m.to leaves of the board before it.
ExplodedAsStated(before, m, after) ==
    \A s \in Squares :
        PieceOn(after, s) =
            IF s \in {m.to, m.from, TakenOn(m)} THEN << >>
            ELSE IF s \in Adjacent(m.to) /\ s \notin before.by_role["Pawn"] THEN << >>
            ELSE PieceOn(before, s)

\* What a move without capture leaves: every piece, and every square the
\* move does not touch as it was.
NothingRemoved(before, m, after) ==
    /\ Cardinality(occupied(after)) = Cardinality(occupied(before))
    /\ m.kind = "Normal" =>
            \A s \in Squares \ {m.from, m.to} : PieceOn(after, s) = PieceOn(before, s)

\* C11: an Atomic capture onto t empties t, removes the capturing and the
\* captured piece and every piece but the pawns on the squares adjacent to
\* t, and keeps every other square; a move without capture removes nothing.
C11_AtomicCaptureExplodes ==
    In("Atomic") =>
        \A m \in Range(legal_moves("Atomic", pos)) :
            IF is_capture(m)
            THEN ExplodedAsStated(pos.board, m, play_unchecked("Atomic", pos, m).board)
            ELSE NothingRemoved(pos.board, m, play_unchecked("Atomic", pos, m).board)

\* C11 witness: the knight has taken on e2; the white king and bishop next
\* to e2 are gone with it and the pawns on d2 and f2 stand.
C11_Witness ==
    /\ In("Atomic") /\ ply = 1 /\ played = "Ok"
    /\ setup = AtomicCaptureSetups[1]
    /\ {4, 5, 12} \cap occupied(pos.board) = {}
    /\ pos.board.by_role["Knight"] = {}
    /\ {11, 13} \subseteq pos.board.by_role["Pawn"]

Rights(castles, color) == {castles.rook[color][s] : s \in Sides} \ {NoSquare}

KingExploded(before, color, after) ==
    /\ before.by_role["King"] \cap before.by_color[color] # {}
    /\ after.by_role["King"] \cap after.by_color[color] = {}

\* The rights of the color whose king still stands where it stood, for the
\* rooks that still stand where they stood.
KeptRights(p, color, after) ==
    IF king_of(after.board, color) = king_of(p.board, color)
    THEN {r \in Rights(p.castles, color) : PieceOn(after.board, r) = <<color, "Rook">>}
    ELSE {}

CastlesAfterExplosion(p, m, after) ==
    /\ KingExploded(p.board, Not(p.turn), after.board) =>
            /\ Rights(after.castles, Not(p.turn)) = {}
            /\ KeptRights(p, p.turn, after) \subseteq Rights(after.castles, p.turn)
            /\ Rights(after.castles, p.turn) \subseteq Rights(p.castles, p.turn)
    /\ \A r \in p.board.by_role["Rook"] \ after.board.by_role["Rook"] :
            r \notin castling_rights(after.castles)

\* C12: an Atomic capture that explodes the opponent's king leaves the
\* opponent no castling right and the mover every right whose king and rook
\* stayed in place; a rook the explosion removes takes its right with it.
C12_ExplodedKingLosesCastling ==
    In("Atomic") =>
        \A m \in Range(legal_moves("Atomic", pos)) :
            is_capture(m) => CastlesAfterExplosion(pos, m, play_unchecked("Atomic", pos, m))

\* C12 witness: the white king has exploded on e1 with both white rights
\* while Black still holds a8 and h8.
C12_Witness ==
    /\ In("Atomic") /\ ply = 1 /\ played = "Ok"
    /\ castling_rights(Castles_from_setup(setup.board, setup.castling_rights,
                                          "Standard").castles) = {0, 7, 56, 63}
    /\ pos.board.by_role["King"] \cap pos.board.by_color[White] = {}
    /\ castling_rights(pos.castles) = {56, 63}

\* Every move of the side to move onto a square it does not hold, and its
\* en passant captures, no rule of the variant applied.
PseudoLegal(p) ==
    Range(gen_en_passant(p.board, p.turn, p.ep_square))
    \cup Range(gen_non_king(p, Squares \ us(p)))
    \cup Range(gen_moves("King", p, Squares \ us(p)))

CaptureAvailable(p) == \E m \in PseudoLegal(p) : is_capture(m)

\* C13: in Antichess, when the side to move can capture, every legal move
\* is a capture; a legal move that captures nothing shows no capture was on.
C13_AntichessMustCapture ==
    In("Antichess") =>
        /\ CaptureAvailable(pos) =>
                /\ legal_moves("Antichess", pos) # << >>
                /\ \A m \in Range(legal_moves("Antichess", pos)) : is_capture(m)
        /\ ~CaptureAvailable(pos) =>
                \A m \in PseudoLegal(pos) : m \in Range(legal_moves("Antichess", pos))

\* C13 witness: a move has been played and the side to move can capture
\* and could also move without capturing.
C13_Witness ==
    /\ In("Antichess") /\ ply >= 1 /\ played = "Ok"
    /\ CaptureAvailable(pos)
    /\ \E m \in PseudoLegal(pos) : ~is_capture(m)

\* d4, e4, d5 and e5
Hill == {s \in Squares : file(s) \in {3, 4} /\ rank(s) \in {3, 4}}

KingOnHill(p, color) == p.board.by_role["King"] \cap p.board.by_color[color] \cap Hill # {}

\* C14: in King of the Hill, with a king on d4, e4, d5 or e5 none of the
\* move generators returns a move and variant_outcome is the win of the
\* color of that king.
C14_HillEndsTheGame ==
    In("KingOfTheHill") =>
        \A color \in Colors :
            KingOnHill(pos, color) =>
                /\ legal_moves(variant, pos) = << >>
                /\ \A side \in Sides : castling_moves(variant, pos, side) = << >>
                /\ en_passant_moves(variant, pos) = << >>
                /\ capture_moves(variant, pos) = << >>
                /\ promotion_moves(variant, pos) = << >>
                /\ \A role \in Roles : \A to \in Squares :
                        san_candidates(variant, pos, role, to) = << >>
                /\ variant_outcome(variant, pos) = Decisive(color)

\* C14 witness: a king has stepped onto the hill while the other side
\* still has pieces that could move.
C14_Witness ==
    /\ In("KingOfTheHill") /\ ply >= 1 /\ played = "Ok"
    /\ KingOnHill(pos, Not(pos.turn))
    /\ PseudoLegal(pos) # {}

\* The king of the color stands attacked by a piece of the other color.
InCheck(p, color) ==
    /\ king_of(p.board, color) # NoSquare
    /\ attacks_to(p.board, king_of(p.board, color), Not(color), occupied(p.board)) # {}

CountedAsStated(p, after) ==
    after.remaining_checks =
        IF InCheck(after, Not(p.turn))
        THEN [p.remaining_checks EXCEPT ![p.turn] = @ - 1]
        ELSE p.remaining_checks

\* C15: in Three-Check a legal move takes one from the mover's remaining
\* checks when it leaves the opponent in check and changes no counter
\* otherwise; a side at 0 has won and no move is legal; both counters stay
\* within 0..3 and are never both 0.
C15_ThreeCheckCounts ==
    In("ThreeCheck") =>
        /\ \A m \in Range(legal_moves(variant, pos)) :
                CountedAsStated(pos, play_unchecked(variant, pos, m))
        /\ \A color \in Colors :
                pos.remaining_checks[color] = 0 =>
                    /\ variant_outcome(variant, pos) = Decisive(color)
                    /\ legal_moves(variant, pos) = << >>
        /\ \A color \in Colors : pos.remaining_checks[color] \in 0..3
        /\ \E color \in Colors : pos.remaining_checks[color] # 0

\* C15 witness: White has given its last check; Black, in check, still has
\* checks to give.
C15_Witness ==
    /\ In("ThreeCheck") /\ ply = 1 /\ played = "Ok"
    /\ setup.remaining_checks[White] = 1
    /\ pos.remaining_checks[White] = 0
    /\ pos.remaining_checks[Black] = 1
    /\ InCheck(pos, Black)

Attackers(p, color) ==
    IF king_of(p.board, color) = NoSquare THEN {}
    ELSE attacks_to(p.board, king_of(p.board, color), Not(color), occupied(p.board))

\* The drops the rules of Crazyhouse allow the side to move.
AllowedDrops(p) ==
    {Put(role, to) : role \in {r \in Roles : p.pockets[p.turn][r] >= 1},
                     to \in {t \in Squares \ occupied(p.board) :
                                CASE Attackers(p, p.turn) = {} -> TRUE
                                  [] Cardinality(Attackers(p, p.turn)) = 1 ->
                                        \E checker \in Attackers(p, p.turn) :
                                            t \in between(king_of(p.board, p.turn), checker)
                                  [] OTHER -> FALSE}}
    \ {Put("Pawn", to) : to \in {t \in Squares : rank(t) \in {0, 7}}}

Drops(moves) == {m \in Range(moves) : m.kind = "Put"}

\* C16: in Crazyhouse every drop in legal_moves takes a piece the pocket
\* holds to an empty square, no pawn to rank 1 or 8, anywhere when not in
\* check, between king and checker when one piece checks, nowhere when two
\* do; san_candidates offers the same drops.
C16_CrazyhouseDrops ==
    In("Crazyhouse") =>
        \A legal \in {Drops(legal_moves(variant, pos))} :
            /\ legal \subseteq AllowedDrops(pos)
            /\ \A role \in Roles : \A to \in Squares :
                    Drops(san_candidates(variant, pos, role, to)) = legal \cap {Put(role, to)}

\* C16 witness: after a checking move the side to move, a knight in its
\* pocket, is in check from one rook on its rank and may drop between.
C16_Witness ==
    /\ In("Crazyhouse") /\ ply = 1 /\ played = "Ok"
    /\ Cardinality(Attackers(pos, pos.turn)) = 1
    /\ Drops(legal_moves(variant, pos)) # {}
    /\ \E m \in AllowedDrops(pos) : m.role = "Knight"

PocketedAsStated(p, m, after) ==
    /\ after.pockets[p.turn] =
            CASE m.kind = "Normal" /\ m.capture # NoRole ->
                    [p.pockets[p.turn] EXCEPT
                        ![IF m.to \in p.board.promoted THEN "Pawn" ELSE m.capture] = @ + 1]
              [] m.kind = "EnPassant" -> [p.pockets[p.turn] EXCEPT !["Pawn"] = @ + 1]
              [] m.kind = "Put" -> [p.pockets[p.turn] EXCEPT ![m.role] = @ - 1]
              [] OTHER -> p.pockets[p.turn]
    /\ after.pockets[Not(p.turn)] = p.pockets[Not(p.turn)]

\* C17: in Crazyhouse a capture pockets one piece of the captured role for
\* the mover, a pawn when the captured piece was promoted or taken en
\* passant; a drop takes one piece of its role from the mover's pocket;
\* other moves leave it alone and no move touches the opponent's pocket.
C17_CrazyhousePockets ==
    In("Crazyhouse") =>
        \A m \in Range(legal_moves(variant, pos)) :
            PocketedAsStated(pos, m, play_unchecked(variant, pos, m))

\* C17 witness: White has promoted on a8 and the black rook has taken the
\* new piece, which lies in Black's pocket as a pawn.
C17_Witness ==
    /\ In("Crazyhouse") /\ ply = 2 /\ played = "Ok"
    /\ setup = CrazyhouseSetups[5]
    /\ Cardinality(pos.board.by_color[White]) = 1
    /\ pos.pockets[Black] = Pocket([Pawn |-> 1])
    /\ pos.pockets[White] = Pocket(NoCounts)

\* C18: in Racing Kings no king is attacked in an accepted or played-to
\* position, and no legal move leaves either king attacked.
C18_RacingKingsNoCheck ==
    In("RacingKings") =>
        /\ \A color \in Colors : ~InCheck(pos, color)
        /\ \A m \in Range(legal_moves(variant, pos)) :
                \A color \in Colors : ~InCheck(play_unchecked(variant, pos, m), color)

\* C18 witness: a move has been played and the side to move has a piece
\* move at hand that would give check.
C18_Witness ==
    /\ In("RacingKings") /\ ply >= 1 /\ played = "Ok"
    /\ legal_moves(variant, pos) # << >>
    /\ \E m \in PseudoLegal(pos) : InCheck(do_move(pos, m), Not(pos.turn))

KingInGoal(p, color) ==
    p.board.by_role["King"] \cap p.board.by_color[color] \cap {s \in Squares : rank(s) = 7} # {}

\* Black, to move with its king short of the eighth rank, has a square of
\* that rank next to its king that holds no black piece and that White does
\* not attack.
BlackCanCatchUp(p) ==
    /\ p.turn = Black
    /\ ~KingInGoal(p, Black)
    /\ \E t \in Adjacent(king_of(p.board, Black)) :
            /\ rank(t) = 7
            /\ t \notin p.board.by_color[Black]
            /\ attacks_to(p.board, t, White, occupied(p.board)) = {}

\* C19: in Racing Kings the game has ended when a king is on the eighth
\* rank, unless Black may still catch up; the outcome is then a draw with
\* both kings there and the win of the king that is there otherwise, and
\* there is no outcome before the end.
C19_RacingKingsEnd ==
    In("RacingKings") =>
        /\ is_variant_end(variant, pos) =
                ((KingInGoal(pos, White) \/ KingInGoal(pos, Black)) /\ ~BlackCanCatchUp(pos))
        /\ variant_outcome(variant, pos) =
                IF ~is_variant_end(variant, pos) THEN NoOutcome
                ELSE IF KingInGoal(pos, White) /\ KingInGoal(pos, Black) THEN Draw
                ELSE IF KingInGoal(pos, White) THEN Decisive(White)
                ELSE Decisive(Black)

\* C19 witness: the white king has stepped onto the eighth rank and Black,
\* to move, can still follow, so the game goes on.
C19_Witness ==
    /\ In("RacingKings") /\ ply = 1 /\ played = "Ok"
    /\ KingInGoal(pos, White)
    /\ BlackCanCatchUp(pos)
    /\ ~is_variant_end(variant, pos)

\* C20: for a position from_setup accepts, whatever the variant,
\* is_game_over holds exactly when the position is checkmate, stalemate,
\* without sufficient material on both sides, or ended by the variant.
C20_GameOverIffEnded ==
    Valid =>
        is_game_over(variant, pos) =
            (\/ is_checkmate(variant, pos)
             \/ is_stalemate(variant, pos)
             \/ is_insufficient_material(variant, pos)
             \/ is_variant_end(variant, pos))

(***************************************************************************)
(* Properties of the attack tables                                         *)
(***************************************************************************)
\* The squares strictly between a and b on their common line.
StrictlyBetween ==
    [a \in Squares |-> [b \in Squares |->
        {u \in Squares \ {a, b} :
            /\ distance(a, u) + distance(u, b) = distance(a, b)
            /\ (file(u) - file(a)) * (rank(b) - rank(a)) =
                   (rank(u) - rank(a)) * (file(b) - file(a))}]]

\* The squares on a line of the piece through a.
Lines ==
    [role \in {"Bishop", "Rook", "Queen"} |-> [a \in Squares |->
        {b \in Squares \ {a} :
            \/ role \in {"Rook", "Queen"} /\ (file(a) = file(b) \/ rank(a) = rank(b))
            \/ role \in {"Bishop", "Queen"} /\
                   Abs(file(a) - file(b)) = Abs(rank(a) - rank(b))}]]

\* What a slider sees by the rules: each square on a line of the piece up to
\* and including the first occupied one.
Seen(role, sq, occ) ==
    {t \in Lines[role][sq] : StrictlyBetween[sq][t] \cap occ = {}}

DeltasOf(role) ==
    CASE role = "Rook" -> ROOK_DELTAS
      [] role = "Bishop" -> BISHOP_DELTAS
      [] role = "Queen" -> ROOK_DELTAS \cup BISHOP_DELTAS

\* C21: for every square and every occupancy the table lookups rook_attacks
\* and bishop_attacks return what the ray walk sliding_attacks returns with the
\* rook and bishop deltas, queen_attacks is the union of the two, and that set
\* is each line of the piece up to and including the first occupied square,
\* never past a board edge.
C21_TablesAgreeWithRayWalk ==
    attack # NoAttack =>
        /\ attack.bb = sliding_attacks(query.sq, query.occupied, DeltasOf(attack.role))
        /\ attack.bb = Seen(attack.role, query.sq, query.occupied)
        /\ attack.role = "Queen" =>
               attack.bb = sliding_attacks(query.sq, query.occupied, ROOK_DELTAS)
                           \cup sliding_attacks(query.sq, query.occupied, BISHOP_DELTAS)

\* A rook on a1 whose view along the first rank ends on an occupied edge
\* square and along the file on an occupied inner square.
C21_Witness ==
    /\ attack # NoAttack
    /\ attack.role = "Rook"
    /\ query = [sq |-> 0, occupied |-> {7, 16}]
    /\ attack.bb = {1, 2, 3, 4, 5, 6, 7, 8, 16}

(***************************************************************************)
(* Properties of pawn moves                                                *)
(***************************************************************************)
\* The rank a pawn of the color promotes on.
LastRank(color) == RankBB(fold(color, 7, 0))

LastRankArrivals(legal) ==
    {m \in Range(legal) : m.kind = "Normal" /\ m.role = "Pawn" /\ m.to \in BACKRANKS}

Times(legal, m) == Cardinality({i \in 1..Len(legal) : legal[i] = m})

\* C22: in every position reached by legal moves from an accepted position no
\* pawn stands on rank 1 or 8 (in Horde: none on the far rank of its color);
\* every legal pawn move or capture that arrives on the last rank is a
\* promotion, offered once each for queen, rook, bishop and knight, and no
\* pawn drop goes to rank 1 or 8.
C22_PawnsPromoteOnLastRank ==
    Valid =>
        /\ \A c \in Colors :
               pos.board.by_role["Pawn"] \cap pos.board.by_color[c] \cap LastRank(c) = {}
        /\ variant # "Horde" => pos.board.by_role["Pawn"] \cap BACKRANKS = {}
        /\ \A legal \in {legal_moves(variant, pos)} :
               /\ \A m \in Range(legal) :
                      /\ m.kind = "Put" /\ m.role = "Pawn" => m.to \notin BACKRANKS
                      /\ m.kind = "EnPassant" => m.to \notin BACKRANKS
                      /\ m.kind = "Normal" /\ m.role = "Pawn" =>
                             /\ m.to \in LastRank(pos.turn) <=> m.promotion # NoRole
                             /\ m.to \notin LastRank(Not(pos.turn))
               /\ \A m \in LastRankArrivals(legal) :
                      \A r \in {"Queen", "Rook", "Bishop", "Knight"} :
                          Times(legal, Normal("Pawn", m.from, m.capture, m.to, r)) = 1

\* A pawn has promoted and the other side has a promotion at hand.
C22_Witness ==
    /\ Valid
    /\ ply = 1
    /\ pos.board.promoted # {}
    /\ LastRankArrivals(legal_moves(variant, pos)) # {}

(***************************************************************************)
(* Properties of Horde setups                                              *)
(***************************************************************************)
KingsOf(board, color) == board.by_role["King"] \cap board.by_color[color]

\* C23: Horde::from_setup accepts a setup only if exactly one king is on the
\* board in total; it reports MISSING_KING when no king is present, VARIANT
\* when both colors have a king and TOO_MANY_KINGS when a color has more than
\* one king.
C23_HordeOneKing ==
    variant = "Horde" /\ result.kind # "None" =>
        /\ result.kind \in {"Ok", "Err"}
        /\ result.kind = "Ok" =>
               /\ Cardinality(setup.board.by_role["King"]) = 1
               /\ result.errors = {}
        /\ setup.board.by_role["King"] = {} => "MISSING_KING" \in result.errors
        /\ (\A c \in Colors : KingsOf(setup.board, c) # {}) =>
               "VARIANT" \in result.errors
        /\ (\E c \in Colors : Cardinality(KingsOf(setup.board, c)) > 1) =>
               "TOO_MANY_KINGS" \in result.errors

\* Two white kings and a black king: both flags are reported.
C23_Witness ==
    /\ variant = "Horde"
    /\ result.kind = "Err"
    /\ Cardinality(KingsOf(setup.board, White)) = 2
    /\ Cardinality(KingsOf(setup.board, Black)) = 1
    /\ {"VARIANT", "TOO_MANY_KINGS"} \subseteq result.errors

(***************************************************************************)
(* Properties of castling                                                  *)
(***************************************************************************)
\* The squares of a rank from a to b, both included.
Span(a, b) ==
    {s \in RankBB(rank(a)) :
        \/ file(a) <= file(s) /\ file(s) <= file(b)
        \/ file(b) <= file(s) /\ file(s) <= file(a)}

\* Castling as the rules state it for the side to move and a wing.
MayCastle(p, side) ==
    LET king == king_of(p.board, p.turn)
        rook == p.castles.rook[p.turn][side]
        kto == from_coords(IF side = "KingSide" THEN 6 ELSE 2, rank(king))
        rto == from_coords(IF side = "KingSide" THEN 5 ELSE 3, rank(king))
        occ == occupied(p.board)
    IN  /\ rook # NoSquare
        /\ ((Span(king, kto) \cup Span(rook, rto)) \ {king, rook}) \cap occ = {}
        /\ \A sq \in Span(king, kto) :
               attacks_to(p.board, sq, Not(p.turn), occ \ {king}) = {}
        /\ attacks_to(p.board, kto, Not(p.turn), (occ \ {king, rook}) \cup {rto}) = {}

CastlingIn(moves, side) == {m \in Range(moves) : castling_side(m) = side}

\* C24: in every valid Chess position and for each wing, the castling move of
\* the side to move is in legal_moves, and returned by castling_moves(side),
\* if and only if the right is registered in Castles, the castling path holds
\* no other piece, no square from the king's origin to its destination is
\* attacked with the king taken out of the occupancy, and the destination is
\* not attacked with king and rook taken out and the rook put on its
\* destination; castling is never offered to a side in check.
C24_CastlingAsStated ==
    InChess =>
        \A side \in Sides :
            \A offered \in {IF MayCastle(pos, side)
                             THEN {Castle(king_of(pos.board, pos.turn),
                                          pos.castles.rook[pos.turn][side])}
                             ELSE {}} :
                /\ CastlingIn(legal_moves(variant, pos), side) = offered
                /\ Range(castling_moves(variant, pos, side)) = offered
                /\ Len(castling_moves(variant, pos, side)) = Cardinality(offered)
                /\ InCheck(pos, pos.turn) => offered = {}

\* After a move by the other side: a wing whose right and path are in order
\* and whose king is not in check, yet castling is withheld for an attacked
\* square, while the other wing is offered.
C24_Witness ==
    /\ InChess
    /\ ply = 1
    /\ ~InCheck(pos, pos.turn)
    /\ \E side \in Sides :
          /\ pos.castles.rook[pos.turn][side] # NoSquare
          /\ pos.castles.path[pos.turn][side] \cap occupied(pos.board) = {}
          /\ CastlingIn(legal_moves(variant, pos), side) = {}
    /\ \E side \in Sides : CastlingIn(legal_moves(variant, pos), side) # {}

\* A pawn advance of two squares from the mover's relative second rank.
DoublePushFromSecond(p, m) ==
    /\ m.kind = "Normal"
    /\ m.role = "Pawn"
    /\ Abs(m.to - m.from) = 16
    /\ m.from \in relative_rank(p.turn, 1)

\* C25: after play_unchecked(m) the stored en passant square is the square
\* the pawn passed over when m is a two-square pawn advance from the mover's
\* relative second rank, and it is empty after every other move, a two-square
\* advance from the first rank in Horde included; a stored square never
\* outlives the next move.
C25_EpSquareAfterMove ==
    Valid =>
        \A m \in Range(legal_moves(variant, pos)) :
            play_unchecked(variant, pos, m).ep_square =
                IF DoublePushFromSecond(pos, m) THEN (m.from + m.to) \div 2 ELSE NoSquare

\* A double push has just stored a square and the side to move has an answer
\* that must clear it.
C25_Witness ==
    /\ Valid
    /\ ply = 1
    /\ played = "Ok"
    /\ pos.ep_square # NoSquare
    /\ legal_moves(variant, pos) # <<>>

(***************************************************************************)
(* Properties of the castling rights                                       *)
(***************************************************************************)
\* The rights a move takes away, as the rules state it.
RightsLost(p, m) ==
    (IF m.kind = "Castle" \/ (m.kind = "Normal" /\ m.role = "King")
     THEN Rights(p.castles, p.turn) ELSE {})
    \cup (IF m.kind = "Normal" /\ m.role = "Rook" THEN {m.from} ELSE {})
    \cup (IF m.kind = "Normal" /\ m.capture = "Rook" THEN {m.to} ELSE {})

\* C26: in Chess the castling rights after a legal move are the rights before
\* it without both rights of the mover after a king move or castling, without
\* the right of the square a rook moved away from and without the right of
\* the square a rook was captured on; every other right stays, wing by wing,
\* and none is ever gained.
C26_CastlingRightsAfterMove ==
    InChess =>
        \A m \in Range(legal_moves(variant, pos)) :
            \A after \in {play_unchecked(variant, pos, m)} :
                /\ \A c \in Colors :
                       Rights(after.castles, c) = Rights(pos.castles, c) \ RightsLost(pos, m)
                /\ \A c \in Colors, s \in Sides :
                       after.castles.rook[c][s] \in {pos.castles.rook[c][s], NoSquare}
                /\ castling_rights(after.castles) \subseteq castling_rights(pos.castles)

\* The rook from a1 has taken the rook on a8: both rights are gone, the rights
\* of the h-file rooks remain.
C26_Witness ==
    /\ InChess
    /\ ply = 1
    /\ played = "Ok"
    /\ role_at(pos.board, 56) = "Rook" /\ 56 \in pos.board.by_color[White]
    /\ castling_rights(pos.castles) = {7, 63}

(***************************************************************************)
(* The last move of a race                                                 *)
(***************************************************************************)
\* White's king stands on the eighth rank, Black is to move and the game has
\* not ended.
BlackToCatchUp ==
    /\ In("RacingKings")
    /\ KingInGoal(pos, White)
    /\ pos.turn = Black
    /\ ~is_variant_end(variant, pos)

\* C27: in Racing Kings, when White's king is on the eighth rank, Black is to
\* move and the game has not ended, every legal move of Black ends the game:
\* is_variant_end holds afterwards, legal_moves is empty, and the outcome is
\* a draw if Black's king has moved onto the eighth rank and White's win
\* otherwise.
C27_RaceEndsAfterBlackReply ==
    [][ BlackToCatchUp /\ ply' = ply + 1 =>
            /\ is_variant_end(variant', pos')
            /\ legal_moves(variant', pos') = <<>>
            /\ is_game_over(variant', pos')
            /\ outcome(variant', pos') =
                   IF KingInGoal(pos', Black) THEN Draw ELSE Decisive(White) ]_vars

\* White's king has stepped onto the eighth rank and Black, able to follow,
\* has played elsewhere.
C27_Witness ==
    /\ In("RacingKings")
    /\ ply = 2
    /\ played = "Ok"
    /\ pos.turn = White
    /\ KingInGoal(pos, White)
    /\ ~KingInGoal(pos, Black)
    /\ outcome(variant, pos) = Decisive(White)

(***************************************************************************)
(* Conservation of material in Crazyhouse                                  *)
(***************************************************************************)
\* The pieces on the board and in both pockets.
Pieces(board, pockets) == Cardinality(occupied(board)) + Material_count(pockets)

\* C28: in Crazyhouse the number of pieces on the board plus the pieces in
\* both pockets is the same before and after every legal move, hence over
\* any sequence of legal moves, and no pocket counter goes below zero.
C28_CrazyhouseConservesPieces ==
    In("Crazyhouse") =>
        /\ Pieces(pos.board, pos.pockets) = Pieces(setup.board, setup.pockets)
        /\ \A c \in Colors, r \in Roles : pos.pockets[c][r] >= 0
        /\ \A m \in Range(legal_moves(variant, pos)) :
               \A after \in {play_unchecked(variant, pos, m)} :
                   /\ Pieces(after.board, after.pockets) = Pieces(pos.board, pos.pockets)
                   /\ \A c \in Colors, r \in Roles : after.pockets[c][r] >= 0

\* A capture has filled a pocket that the setup left empty and a drop is at
\* hand.
C28_Witness ==
    /\ In("Crazyhouse")
    /\ ply >= 1
    /\ \E c \in Colors, r \in Roles : pos.pockets[c][r] > setup.pockets[c][r]
    /\ \E m \in Range(legal_moves(variant, pos)) : m.kind = "Put"

(***************************************************************************)
(* The en passant square a position reports                                *)
(***************************************************************************)
EpCapturesOnto(moves, sq) == {m \in Range(moves) : m.kind = "EnPassant" /\ m.to = sq}

\* C29: in Chess and the variants built on it, ep_square() of the Setup view
\* returns a square only when legal_moves of the position holds an en passant
\* capture onto that square; a stored square that no pawn can legally capture
\* onto is reported as None.
C29_EpSquareOnlyWithCapture ==
    Valid /\ inner(variant) = "Chess" =>
        /\ ep_square(variant, pos) \in {NoSquare, pos.ep_square}
        /\ ep_square(variant, pos) # NoSquare =>
               EpCapturesOnto(legal_moves(variant, pos), ep_square(variant, pos)) # {}

(***************************************************************************)
(* Outcome and end of the game                                             *)
(***************************************************************************)
\* C30: in every variant and every position reached by legal moves from a
\* position of a game, outcome() is Some exactly when is_game_over() is true,
\* and whenever variant_outcome() is Some the side to move has no legal move.
C30_OutcomeIffGameOver ==
    Valid =>
        /\ outcome(variant, pos) # NoOutcome <=> is_game_over(variant, pos)
        /\ variant_outcome(variant, pos) # NoOutcome => legal_moves(variant, pos) = <<>>

\* The last pawn of the horde has been taken: the variant has an outcome and
\* the game is over.
C30_Witness ==
    /\ In("Horde")
    /\ ply = 1
    /\ played = "Ok"
    /\ variant_outcome(variant, pos) = Decisive(Black)
    /\ is_game_over(variant, pos)
    /\ outcome(variant, pos) = Decisive(Black)

====
